---- MODULE Spec2Model ----
(***************************************************************************)
(* Source / Resource / Subresource model of nextstrain.org's src/sources.js *)
(* and src/sources/fetch.js: resource construction, subresource typing,    *)
(* access control, existence checks and dataset alias resolution.          *)
(***************************************************************************)
EXTENDS Integers, Sequences, FiniteSets, Bags, TLC

(* ------------------------------------------------------------------ *)
(* Bounds of the model                                                 *)
(* ------------------------------------------------------------------ *)
MaxParts == 2        \* longest pathParts handed to a Resource constructor
MaxGroups == 1       \* most groups a principal's groups list holds
MaxDefaults == 2     \* most entries of the defaults map of one source
MaxCalls == 2        \* most calls in progress at once on one Source instance
MaxFiles == 2        \* most files a contents listing of GitHub names
MaxPages == 2        \* most pages of objects a bucket listing delivers

(* ------------------------------------------------------------------ *)
(* The Source class hierarchy                                          *)
(* ------------------------------------------------------------------ *)

\* Concrete public group classes (extends PublicGroupSource) and their _name.
PublicGroupNames ==
  [ BlabSource |-> "blab", NextspainSource |-> "nextspain",
    SeattleFluSource |-> "seattleflu", SwissSource |-> "swiss",
    COGUKSource |-> "cog-uk", NGSSASource |-> "ngs-sa", ECDCSource |-> "ecdc",
    IllinoisGagnonPublicSource |-> "illinois-gagnon-public",
    NeherLabSource |-> "neherlab", SpheresSource |-> "spheres",
    NIPHSource |-> "niph", EPICOVIGALSource |-> "epicovigal",
    WAPHLSource |-> "waphl", NebraskaDHHSSource |-> "nebraska-dhhs",
    ViennaRNASource |-> "ViennaRNA", SC2ZamPubSource |-> "SC2ZamPub",
    NcovHKSource |-> "ncovHK" ]

\* Concrete private group classes (extends PrivateGroupSource) and their _name.
PrivateGroupNames ==
  [ BlabPrivateSource |-> "blab-private", InrbDrcSource |-> "inrb-drc",
    NzCovid19PrivateSource |-> "nz-covid19-private",
    AllWalesPrivateSource |-> "allwales-private",
    IllinoisGagnonPrivateSource |-> "illinois-gagnon-private",
    GrubaughLabPrivateSource |-> "grubaughlab", ILRIPrivateSource |-> "ilri",
    PIGIEPrivateSource |-> "pigie", SC2ZamPrivateSource |-> "SC2Zam",
    WallauLabPrivateSource |-> "wallaulab",
    NextfluPrivateSource |-> "nextflu-private",
    DatabiomicsPrivateSource |-> "databiomics" ]

PublicGroupClasses == DOMAIN PublicGroupNames
PrivateGroupClasses == DOMAIN PrivateGroupNames

\* The classes listed in `sources`, from which sourceMap is built.
sources ==
  {"CoreSource", "CoreStagingSource", "CommunitySource", "UrlDefinedSource"}
    \cup PublicGroupClasses \cup PrivateGroupClasses

\* Classes that are only extended, never registered.
AbstractSourceClasses ==
  {"Source", "S3Source", "PrivateS3Source", "PublicGroupSource", "PrivateGroupSource"}

SourceClasses == sources \cup AbstractSourceClasses

\* `class X extends Y`: the superclass of each Source class ("" for the root).
SourceSuper(cls) ==
  CASE cls = "Source" -> ""
    [] cls \in {"CoreSource", "CommunitySource", "UrlDefinedSource", "S3Source",
                "fetch.js:UrlDefinedSource"} -> "Source"
    [] cls = "CoreStagingSource" -> "CoreSource"
    [] cls \in {"PrivateS3Source", "PublicGroupSource"} -> "S3Source"
    [] cls = "PrivateGroupSource" -> "PrivateS3Source"
    [] cls \in PublicGroupClasses -> "PublicGroupSource"
    [] cls \in PrivateGroupClasses -> "PrivateGroupSource"

\* The mutant of _name: CoreStagingSource defines no _name of its own and
\* inherits CoreSource's.
SourceName_Inherited(cls) ==
  CASE cls \in {"CoreSource", "CoreStagingSource"} -> "core"
    [] cls = "CommunitySource" -> "community"
    [] cls \in {"UrlDefinedSource", "fetch.js:UrlDefinedSource"} -> "fetch"
    [] cls \in PublicGroupClasses -> PublicGroupNames[cls]
    [] cls \in PrivateGroupClasses -> PrivateGroupNames[cls]
    [] OTHER -> "throws"

\* static get _name(): the value the getter of class cls returns, "throws" when
\* the lookup ends at Source._name.
SourceName(cls) ==
  CASE cls = "CoreSource" -> "core"
    [] cls = "CoreStagingSource" -> "staging"
    [] cls = "CommunitySource" -> "community"
    [] cls \in {"UrlDefinedSource", "fetch.js:UrlDefinedSource"} -> "fetch"
    [] cls \in PublicGroupClasses -> PublicGroupNames[cls]
    [] cls \in PrivateGroupClasses -> PrivateGroupNames[cls]
    [] OTHER -> "throws"


\* src/sources/fetch.js defines its own UrlDefinedSource family next to the one
\* in src/sources.js; its classes carry the prefix "fetch.js:".
FetchJsSourceClasses == {"fetch.js:UrlDefinedSource"}

\* A Source instance: the class it was constructed from and the fields its
\* constructor sets (CommunitySource: owner, repoName, branch; UrlDefinedSource:
\* authority).  "" stands for a field the constructor leaves undefined.
SourceInstance(cls, owner, repoName, branch, authority) ==
  [cls |-> cls, owner |-> owner, repoName |-> repoName, branch |-> branch,
   authority |-> authority]

\* The instances the registry's classes give: core, staging and the groups
\* take no constructor argument, community takes (owner, repoName[@branch]),
\* fetch takes the URL authority.
SourceInstances ==
  { SourceInstance(c, "", "", "", "") :
      c \in (sources \ {"CommunitySource", "UrlDefinedSource"}) }
  \cup { SourceInstance("CommunitySource", "nextstrain", "community-test", b, "") :
           b \in {"", "alt"} }
  \cup { SourceInstance(c, "", "", "", "github.com") :
           c \in {"UrlDefinedSource"} \cup FetchJsSourceClasses }

\* The sources the modelled requests are made on: one instance of every class
\* that defines or overrides a member (the group classes below
\* PublicGroupSource and PrivateGroupSource differ in _name and bucket only).
RequestSources ==
  { s \in SourceInstances :
      s.cls \in {"CoreSource", "CoreStagingSource", "CommunitySource",
                 "UrlDefinedSource", "fetch.js:UrlDefinedSource",
                 "BlabSource", "BlabPrivateSource", "InrbDrcSource"} }

\* `${this.source.repoName}` inside a template string: an undefined field
\* prints as "undefined".
RepoNameText(source) ==
  IF source.repoName = "" THEN "undefined" ELSE source.repoName

(* ------------------------------------------------------------------ *)
(* Resources                                                           *)
(* ------------------------------------------------------------------ *)
Segments == {"flu", "seasonal"}

\* All sequences over S of length at most n.
SeqsUpTo(S, n) == UNION { [1..k -> S] : k \in 0..n }

PathPartsInputs == SeqsUpTo(Segments, MaxParts)

ResourceClasses ==
  {"Dataset", "Narrative", "CommunityDataset", "CommunityNarrative",
   "UrlDefinedDataset", "UrlDefinedNarrative",
   "fetch.js:UrlDefinedDataset", "fetch.js:UrlDefinedNarrative"}

\* `class X extends Y` for the Resource classes.
ResourceSuper(cls) ==
  CASE cls = "Resource" -> ""
    [] cls \in {"Dataset", "Narrative"} -> "Resource"
    [] cls \in {"CommunityDataset", "UrlDefinedDataset", "fetch.js:UrlDefinedDataset"} -> "Dataset"
    [] cls \in {"CommunityNarrative", "UrlDefinedNarrative", "fetch.js:UrlDefinedNarrative"} -> "Narrative"

\* instanceof Dataset / instanceof Narrative
IsDatasetClass(cls) == cls = "Dataset" \/ ResourceSuper(cls) = "Dataset"
IsNarrativeClass(cls) == cls = "Narrative" \/ ResourceSuper(cls) = "Narrative"

IsUrlDefinedClass(cls) ==
  cls \in {"UrlDefinedDataset", "UrlDefinedNarrative",
           "fetch.js:UrlDefinedDataset", "fetch.js:UrlDefinedNarrative"}

\* The last segment of a fetched URL's path when it names a file.
FileSegments == {"zika.json"}

\* The pathParts a Resource of class cls is constructed from: a URL-defined
\* one also from the path of a URL that ends in a file name.
PathPartsOf(cls) ==
  IF IsUrlDefinedClass(cls)
    THEN PathPartsInputs \cup
           { p \o <<f>> : p \in SeqsUpTo(Segments, MaxParts - 1), f \in FileSegments }
    ELSE PathPartsInputs

\* get baseParts(): Resource's getter copies pathParts; CommunityDataset and
\* CommunityNarrative override it and prepend directory plus repository name.
BaseParts(cls, source, pathParts) ==
  CASE cls = "CommunityDataset" -> <<"auspice/" \o RepoNameText(source)>> \o pathParts
    [] cls = "CommunityNarrative" -> <<"narratives/" \o RepoNameText(source)>> \o pathParts
    [] OTHER -> pathParts

\* The mutant of the constructor's check: the guard is dropped.
ResourceCtorThrows_NoCheck(cls, source, pathParts) == FALSE

\* Resource constructor: `if (!this.baseParts.length) throw new NoResourcePathError()`
ResourceCtorThrows(cls, source, pathParts) ==
  Len(BaseParts(cls, source, pathParts)) = 0

NoSourceInstance == SourceInstance("", "", "", "", "")
NoResource == [cls |-> "", source |-> NoSourceInstance, pathParts |-> <<>>]

\* The object a successful `new cls(source, pathParts)` leaves behind.
ResourceObject(cls, source, pathParts) ==
  [cls |-> cls, source |-> source, pathParts |-> pathParts]

\* The mutant of the community getter: the plain Dataset rule for every class.
IsRequestValidWithoutDataset_Inherited(r) == FALSE

\* get isRequestValidWithoutDataset(): false on Dataset, overridden by
\* CommunityDataset to `!this.pathParts.length`.
IsRequestValidWithoutDataset(r) ==
  IF r.cls = "CommunityDataset" THEN Len(r.pathParts) = 0 ELSE FALSE

\* source.dataset(pathParts) / source.narrative(pathParts): the class each
\* Source class's factory constructs (Source's own unless overridden).
DatasetClassOf(sourceCls) ==
  CASE sourceCls = "CommunitySource" -> "CommunityDataset"
    [] sourceCls = "UrlDefinedSource" -> "UrlDefinedDataset"
    [] sourceCls = "fetch.js:UrlDefinedSource" -> "fetch.js:UrlDefinedDataset"
    [] OTHER -> "Dataset"

NarrativeClassOf(sourceCls) ==
  CASE sourceCls = "CommunitySource" -> "CommunityNarrative"
    [] sourceCls = "UrlDefinedSource" -> "UrlDefinedNarrative"
    [] sourceCls = "fetch.js:UrlDefinedSource" -> "fetch.js:UrlDefinedNarrative"
    [] OTHER -> "Narrative"

(* ------------------------------------------------------------------ *)
(* Subresources                                                        *)
(* ------------------------------------------------------------------ *)
SubresourceClasses ==
  {"Subresource", "DatasetSubresource", "NarrativeSubresource",
   "UrlDefinedDatasetSubresource", "UrlDefinedNarrativeSubresource",
   "fetch.js:UrlDefinedDatasetSubresource", "fetch.js:UrlDefinedNarrativeSubresource"}

SubresourceSuper(cls) ==
  CASE cls = "Subresource" -> ""
    [] cls \in {"DatasetSubresource", "NarrativeSubresource"} -> "Subresource"
    [] cls \in {"UrlDefinedDatasetSubresource", "fetch.js:UrlDefinedDatasetSubresource"}
         -> "DatasetSubresource"
    [] cls \in {"UrlDefinedNarrativeSubresource", "fetch.js:UrlDefinedNarrativeSubresource"}
         -> "NarrativeSubresource"

DatasetValidTypes == {"main", "root-sequence", "tip-frequencies", "meta", "tree"}
NarrativeValidTypes == {"md"}

\* The types a caller may hand over: every enumerated one and one outside.
TypeInputs == DatasetValidTypes \cup NarrativeValidTypes \cup {"bogus"}

\* The mutant of validTypes: one list shared by both kinds.
ValidTypes_Shared(subCls) ==
  IF subCls = "Subresource" THEN {} ELSE DatasetValidTypes \cup NarrativeValidTypes

\* static validTypes: set on DatasetSubresource and NarrativeSubresource and
\* inherited by their subclasses; the getter of Subresource itself throws
\* (modelled as no valid type; the constructor rejects that class before).
ValidTypes(subCls) ==
  CASE subCls = "DatasetSubresource" \/ SubresourceSuper(subCls) = "DatasetSubresource"
         -> DatasetValidTypes
    [] subCls = "NarrativeSubresource" \/ SubresourceSuper(subCls) = "NarrativeSubresource"
         -> NarrativeValidTypes
    [] OTHER -> {}

\* Subresource constructor: the three checks, in order.
SubresourceCtorThrows(subCls, r, type) ==
  \/ subCls = "Subresource"
  \/ r = NoResource
  \/ type \notin ValidTypes(subCls)

\* resource.subresource(type): the Subresource class each Resource class builds.
SubresourceClassOf(resourceCls) ==
  CASE resourceCls = "UrlDefinedDataset" -> "UrlDefinedDatasetSubresource"
    [] resourceCls = "UrlDefinedNarrative" -> "UrlDefinedNarrativeSubresource"
    [] resourceCls = "fetch.js:UrlDefinedDataset" -> "fetch.js:UrlDefinedDatasetSubresource"
    [] resourceCls = "fetch.js:UrlDefinedNarrative" -> "fetch.js:UrlDefinedNarrativeSubresource"
    [] IsDatasetClass(resourceCls) -> "DatasetSubresource"
    [] OTHER -> "NarrativeSubresource"

NoSubresource == [cls |-> "", resource |-> NoResource, type |-> ""]


(* ------------------------------------------------------------------ *)
(* Access control                                                      *)
(* ------------------------------------------------------------------ *)

\* The group names a principal may carry: every registered source name and one
\* that names no source.
GroupNameInputs == { SourceName(c) : c \in sources } \cup {"no-such-group"}

\* An AccessPrincipal as visibleToUser sees it: `user` may be undefined
\* (present = FALSE), may lack `groups` (hasGroups = FALSE), or carries a
\* groups array, of which only membership is ever asked.
Principal(present, hasGroups, groups) ==
  [present |-> present, hasGroups |-> hasGroups, groups |-> groups]

\* The subsets of S with at most n elements.
RECURSIVE SubsetsUpTo(_, _)
SubsetsUpTo(S, n) ==
  IF n = 0 THEN {{}}
  ELSE LET smaller == SubsetsUpTo(S, n - 1)
       IN  smaller \cup { x \cup {e} : x \in smaller, e \in S }

Principals ==
  { Principal(FALSE, FALSE, {}), Principal(TRUE, FALSE, {}) }
  \cup { Principal(TRUE, TRUE, g) : g \in SubsetsUpTo(GroupNameInputs, MaxGroups) }

\* What a call gives back: a value, or the name of what it threw.
Returns(v) == [value |-> v, thrown |-> "none"]
Throws(e) == [value |-> FALSE, thrown |-> e]

\* The classes that define `static visibleToUser`.
DefinesVisibleToUser == {"Source", "PrivateS3Source", "PrivateGroupSource"}

\* Static method lookup along the `extends` chain.
RECURSIVE VisibleToUserDefiner(_)
VisibleToUserDefiner(cls) ==
  IF cls \in DefinesVisibleToUser THEN cls ELSE VisibleToUserDefiner(SourceSuper(cls))

\* The mutant of PrivateGroupSource.visibleToUser: any group membership will do.
PrivateGroupVisibleToUser_AnyGroup(cls, user) ==
  Returns(user.present /\ user.hasGroups /\ user.groups # {})

\* PrivateGroupSource.visibleToUser, `this` being the class it is called on:
\* `!!user && !!user.groups && user.groups.includes(this._name)`
PrivateGroupVisibleToUser(cls, user) ==
  IF ~user.present THEN Returns(FALSE)
  ELSE IF ~user.hasGroups THEN Returns(FALSE)
  ELSE IF SourceName(cls) = "throws" THEN Throws("Error")
  ELSE Returns(SourceName(cls) \in user.groups)

\* cls.visibleToUser(user): the static rule of class cls.
StaticVisibleToUser(cls, user) ==
  CASE VisibleToUserDefiner(cls) = "Source" -> Returns(TRUE)
    [] VisibleToUserDefiner(cls) = "PrivateS3Source" -> Throws("Error")
    [] VisibleToUserDefiner(cls) = "PrivateGroupSource" -> PrivateGroupVisibleToUser(cls, user)

\* The mutant of the instance method: it asks the superclass's rule.
InstanceVisibleToUser_Super(source, user) ==
  StaticVisibleToUser(SourceSuper(source.cls), user)

\* source.visibleToUser(user): `this.constructor.visibleToUser(user)`; no
\* class overrides the instance method.
InstanceVisibleToUser(source, user) == StaticVisibleToUser(source.cls, user)


(* ------------------------------------------------------------------ *)
(* State                                                               *)
(* ------------------------------------------------------------------ *)
VARIABLES
  call,          \* the construction request in progress: operation and arguments
  thrown,        \* what that operation threw ("none" when it returned)
  resource,      \* the Resource the request holds (NoResource when none)
  subresource,   \* the Subresource the request holds (NoSubresource when none)
  validWithout,  \* resource.isRequestValidWithoutDataset as last read
  baseName,      \* subresource.baseName as last read ("" when not read)
  visCall,       \* the last visibleToUser call: kind, class, source, user
  visible,       \* what that call gave back (Returns / Throws)
  visNew,        \* the class the access check constructed with `new` and
                 \* what the construction threw (NoNew when it made none)
  exOn,          \* the Resource whose exists() is running (NoResource when idle)
  exPc,          \* where that exists() stands: idle, main, fallback, done
                 \* (url: a url() call on a Subresource of exOn has returned)
  exLog,         \* the requests it issued and what the network did, in order
  exResult,      \* what exists() settled to: pending, true, false, rejected
  exUrl,         \* the URLs the call on exOn was given by url(), in order
  exFailed,      \* whether an earlier exists() of this run has rejected
  availableDatasets, \* global.availableDatasets: known paths and defaults
  rsReceiver,    \* the Dataset resolve() was called on (NoResource when idle)
  rsCur,         \* the Dataset whose resolve() frame is running
  rsNew,         \* how many Datasets this resolve() has constructed
  rsPc,          \* idle, running, returned, thrown
  rsResult,      \* the Dataset resolve() returned
  rsFirst,       \* what the caller's previous resolve() returned, when this
                 \* call is on that result (NoResource otherwise)
  inst,          \* the Source instance constructed (NoSourceInstance when none)
  srcThrown,     \* what the Source constructor threw ("none" when it returned)
  defaultBranch, \* inst.defaultBranch: the promise of the default-branch lookup
  lookups,       \* how many default-branch lookup requests have been issued
  observed,      \* the values `await this.branch` has given the calls on inst
  calls,         \* the bag of the calls in progress on inst
  last           \* the call that settled in the last step, as it stood then
                 \* (FreeCall when the step settled none)

ctorVars == <<call, thrown, resource, subresource, validWithout, baseName>>
visVars == <<visCall, visible, visNew>>
existsVars == <<exOn, exPc, exLog, exResult, exUrl, exFailed>>
resolveVars == <<availableDatasets, rsReceiver, rsCur, rsNew, rsPc, rsResult, rsFirst>>
sourceVars == <<inst, srcThrown, defaultBranch, lookups, observed, calls, last>>
vars == <<ctorVars, visVars, existsVars, resolveVars, sourceVars>>

NoCall ==
  [op |-> "none", cls |-> "", source |-> NoSourceInstance, pathParts |-> <<>>,
   subCls |-> "", type |-> ""]

CtorInit ==
  /\ call = NoCall
  /\ thrown = "none"
  /\ resource = NoResource
  /\ subresource = NoSubresource
  /\ validWithout = FALSE
  /\ baseName = ""

NoVisCall ==
  [kind |-> "none", cls |-> "", source |-> NoSourceInstance,
   user |-> Principal(FALSE, FALSE, {})]

NoNew == [cls |-> "", thrown |-> "none"]

VisInit ==
  /\ visCall = NoVisCall
  /\ visible = Returns(FALSE)
  /\ visNew = NoNew

ExistsInit ==
  /\ exOn = NoResource
  /\ exPc = "idle"
  /\ exLog = <<>>
  /\ exResult = "pending"
  /\ exUrl = <<>>
  /\ exFailed = FALSE

\* array.join(sep)
RECURSIVE Join(_, _)
Join(parts, sep) ==
  IF parts = <<>> THEN ""
  ELSE IF Len(parts) = 1 THEN parts[1]
  ELSE parts[1] \o sep \o Join(Tail(parts), sep)

\* The mutant of endsWith: no string has the suffix.
EndsWith_Never(text, suffix) == FALSE

\* text.endsWith(suffix)
EndsWith(text, suffix) ==
  /\ Len(text) >= Len(suffix)
  /\ SubSeq(text, Len(text) - Len(suffix) + 1, Len(text)) = suffix

\* text.replace(/\.json$/, ''): a trailing ".json" is cut off.
WithoutJsonSuffix(text) ==
  IF EndsWith(text, ".json") THEN SubSeq(text, 1, Len(text) - Len(".json")) ELSE text

\* resource.baseName: Resource joins baseParts with "_", UrlDefinedDataset and
\* UrlDefinedNarrative (of either file) with "/".
ResourceBaseName(r) ==
  Join(BaseParts(r.cls, r.source, r.pathParts),
       IF IsUrlDefinedClass(r.cls) THEN "/" ELSE "_")

\* subresource.baseName, by the class of the Subresource.
SubresourceBaseName(sub) ==
  LET resourceBaseName == ResourceBaseName(sub.resource)
  IN  CASE sub.cls = "DatasetSubresource" ->
             IF sub.type = "main"
               THEN resourceBaseName \o ".json"
               ELSE resourceBaseName \o "_" \o sub.type \o ".json"
        [] sub.cls = "NarrativeSubresource" -> resourceBaseName \o ".md"
        [] sub.cls \in {"UrlDefinedDatasetSubresource",
                        "fetch.js:UrlDefinedDatasetSubresource"} ->
             IF sub.type = "main" THEN resourceBaseName
             ELSE IF EndsWith(resourceBaseName, ".json")
               THEN WithoutJsonSuffix(resourceBaseName) \o "_" \o sub.type \o ".json"
               ELSE resourceBaseName \o "_" \o sub.type
        [] sub.cls \in {"UrlDefinedNarrativeSubresource",
                        "fetch.js:UrlDefinedNarrativeSubresource"} -> resourceBaseName

\* The source names the availability cache may hold entries for.
CacheSourceNames == {"core", "staging"}

\* The segments a default may complete a path with.
DefaultSegments == {"seasonal", "h3n2"}

\* The defaults map that completes `parts` with the segments of `chain`, one
\* after the other: prefix |-> next segment.
ChainDefaults(parts, chain) ==
  [ prefix \in { Join(parts \o SubSeq(chain, 1, i - 1), "/") : i \in 1..Len(chain) } |->
      chain[CHOOSE i \in 1..Len(chain) : Join(parts \o SubSeq(chain, 1, i - 1), "/") = prefix] ]

\* The paths along that completion, the starting one included.
ChainPaths(parts, chain) ==
  { Join(parts \o SubSeq(chain, 1, i), "/") : i \in 0..Len(chain) }

\* A function with no argument: an object without keys.
EmptyObject == [x \in {} |-> x]

\* The elements of a set as a list.
RECURSIVE AsList(_)
AsList(set) ==
  IF set = {} THEN <<>>
  ELSE LET x == CHOOSE y \in set : TRUE IN <<x>> \o AsList(set \ {x})

\* global.availableDatasets as the server sets it up before any manifest is
\* loaded: no source has known paths or defaults.
EmptyCache ==
  [known |-> EmptyObject, defaults |-> EmptyObject, secondTreeOptions |-> EmptyObject]

\* global.availableDatasets.secondTreeOptions[name] for a source whose known
\* paths are `paths`: each path with the other ones as its second trees.
SecondTreesAmong(paths) == [p \in paths |-> AsList(paths \ {p})]

\* The caches that hold entries for source `name` along the completion of
\* `parts` by `chain`: the defaults map of that completion (or no defaults
\* entry at all), and a list of some of its paths as known paths (or no
\* known-paths entry at all).
CachesAlong(name, parts, chain) ==
  { [known |-> IF hasKnown THEN [n \in {name} |-> paths] ELSE EmptyObject,
     defaults |-> IF hasDefaults THEN [n \in {name} |-> ChainDefaults(parts, chain)]
                  ELSE EmptyObject,
     secondTreeOptions |-> IF hasKnown THEN [n \in {name} |-> SecondTreesAmong(paths)]
                           ELSE EmptyObject] :
      hasKnown \in BOOLEAN, hasDefaults \in BOOLEAN,
      paths \in SUBSET ChainPaths(parts, chain) }

\* The contents global.availableDatasets may have when a request arrives (the
\* cache is written by the server's manifest loader, not by the code modelled
\* here): entries for one source name, along the completion of one top-level
\* path.
AvailabilityCaches ==
  UNION { CachesAlong(name, <<tc[1]>>, tc[2]) :
            name \in CacheSourceNames,
            tc \in Segments \X SeqsUpTo(DefaultSegments, MaxDefaults) }

ResolveIdle ==
  /\ rsReceiver = NoResource
  /\ rsCur = NoResource
  /\ rsNew = 0
  /\ rsPc = "idle"
  /\ rsResult = NoResource
  /\ rsFirst = NoResource

\* A promise: not there (the field is undefined), pending, fulfilled with a
\* value, or rejected with the name of an error.
NoPromise == [state |-> "none", value |-> ""]
PendingPromise == [state |-> "pending", value |-> ""]
Fulfilled(v) == [state |-> "fulfilled", value |-> v]
Rejected(e) == [state |-> "rejected", value |-> e]

\* A call that has not settled.
Pending == [value |-> FALSE, thrown |-> "pending"]

\* What fetch() gave a call: nothing yet, a response (its status, whether its
\* body parses as JSON, the files the body lists), or a failed request.
NoResponse == [kind |-> "none", status |-> 0, parsable |-> FALSE, files |-> <<>>]
Response(status, parsable, files) ==
  [kind |-> "response", status |-> status, parsable |-> parsable, files |-> files]
FailedRequest == [kind |-> "failed", status |-> 0, parsable |-> FALSE, files |-> <<>>]

\* The value `undefined`, where JavaScript values are written as text.
JsUndefined == "undefined"

\* The front matter of an overview file, field by field.
FrontMatter(title, byline, website, showDatasets, showNarratives, content) ==
  [title |-> title, byline |-> byline, website |-> website,
   showDatasets |-> showDatasets, showNarratives |-> showNarratives,
   content |-> content]

\* What S3.getObject() gave a call: nothing yet, a failure, or an object (its
\* ContentEncoding, whether its Body is gzip data, whether the text in it is
\* YAML front matter, and that front matter).
NoObject ==
  [kind |-> "none", ContentEncoding |-> "", gzipped |-> FALSE, yaml |-> FALSE,
   frontMatter |-> FrontMatter("", "", "", "", "", "")]
FailedObject == [NoObject EXCEPT !.kind = "failed"]
S3Object(encoding, gzipped, yaml, frontMatter) ==
  [kind |-> "object", ContentEncoding |-> encoding, gzipped |-> gzipped,
   yaml |-> yaml, frontMatter |-> frontMatter]

\* No call.  A call has: the method, where it stands, the branch
\* its `await this.branch` gave, the answer of its fetch(), the page events
\* its _listObjects() callback has received and the contents it has gathered,
\* the promise _listObjects() returned, the signed logo URL, the answer of its
\* getObject(), and what the call settled to.
FreeCall ==
  [op |-> "none", pc |-> "free", branch |-> "", response |-> NoResponse,
   pages |-> <<>>, contents |-> <<>>, listing |-> NoPromise,
   logoSrc |-> JsUndefined, object |-> NoObject, result |-> Pending,
   key |-> ""]

SourceIdle ==
  /\ inst = NoSourceInstance
  /\ srcThrown = "none"
  /\ defaultBranch = NoPromise
  /\ lookups = 0
  /\ observed = {}
  /\ calls = EmptyBag
  /\ last = FreeCall

(* ------------------------------------------------------------------ *)
(* Construction of Resources and Subresources                          *)
(* ------------------------------------------------------------------ *)

\* `new cls(source, pathParts)` as the first step of a request: the Resource
\* constructor sets source and pathParts and throws on empty baseParts, in
\* which case the caller holds no object.
Construct(op, cls, source, pathParts) ==
  /\ call = NoCall
  /\ call' = [op |-> op, cls |-> cls, source |-> source, pathParts |-> pathParts,
              subCls |-> "", type |-> ""]
  /\ IF ResourceCtorThrows(cls, source, pathParts)
       THEN /\ thrown' = "NoResourcePathError"
            /\ resource' = NoResource
       ELSE /\ thrown' = "none"
            /\ resource' = ResourceObject(cls, source, pathParts)
  /\ subresource' = NoSubresource
  /\ validWithout' = FALSE
  /\ baseName' = ""
  /\ UNCHANGED <<visVars, existsVars, resolveVars, sourceVars>>

\* new Dataset(...), new CommunityNarrative(...), ... called directly.
NewResource ==
  /\ call = NoCall
  /\ \E cls \in ResourceClasses, source \in RequestSources :
       \E pathParts \in PathPartsOf(cls) :
         Construct("new", cls, source, pathParts)

\* source.dataset(pathParts)
SourceDataset ==
  /\ call = NoCall
  /\ \E source \in SourceInstances :
       \E pathParts \in PathPartsOf(DatasetClassOf(source.cls)) :
         Construct("dataset", DatasetClassOf(source.cls), source, pathParts)

\* source.narrative(pathParts)
SourceNarrative ==
  /\ call = NoCall
  /\ \E source \in SourceInstances :
       \E pathParts \in PathPartsOf(NarrativeClassOf(source.cls)) :
         Construct("narrative", NarrativeClassOf(source.cls), source, pathParts)

\* dataset.isRequestValidWithoutDataset read on the Dataset the request holds.
ReadIsRequestValidWithoutDataset ==
  /\ resource # NoResource
  /\ call.op \in {"new", "dataset", "narrative"}
  /\ IsDatasetClass(resource.cls)
  /\ call' = [call EXCEPT !.op = "isRequestValidWithoutDataset", !.type = ""]
  /\ thrown' = "none"
  /\ validWithout' = IsRequestValidWithoutDataset(resource)
  /\ UNCHANGED <<resource, subresource, baseName, visVars, existsVars, resolveVars, sourceVars>>

\* The Subresource constructor on (the request's resource, type); a request
\* whose Resource construction threw hands over something that is not one.
ConstructSub(op, subCls, type) ==
  /\ call.op \in {"new", "dataset", "narrative"}
  /\ call' = [call EXCEPT !.op = op, !.subCls = subCls, !.type = type]
  /\ IF SubresourceCtorThrows(subCls, resource, type)
       THEN /\ thrown' = "Error"
            /\ subresource' = NoSubresource
       ELSE /\ thrown' = "none"
            /\ subresource' = [cls |-> subCls, resource |-> resource, type |-> type]
  /\ UNCHANGED <<resource, validWithout, baseName, visVars, existsVars, resolveVars, sourceVars>>

\* new DatasetSubresource(resource, type), ... called directly.
NewSubresource ==
  /\ call.op \in {"new", "dataset", "narrative"}
  /\ \E subCls \in SubresourceClasses, type \in TypeInputs :
       ConstructSub("new Subresource", subCls, type)

\* resource.subresource(type)
ResourceSubresource ==
  /\ resource # NoResource
  /\ call.op \in {"new", "dataset", "narrative"}
  /\ \E type \in TypeInputs :
       ConstructSub("subresource", SubresourceClassOf(resource.cls), type)

\* subresource.baseName read on the Subresource the request holds.
ReadBaseName ==
  /\ subresource # NoSubresource
  /\ call.op \in {"new Subresource", "subresource"}
  /\ call' = [call EXCEPT !.op = "baseName"]
  /\ thrown' = "none"
  /\ baseName' = SubresourceBaseName(subresource)
  /\ UNCHANGED <<resource, subresource, validWithout, visVars, existsVars, resolveVars, sourceVars>>

\* The request ends; its objects are dropped (Resources and Subresources are
\* constructed fresh per request).
EndRequest ==
  /\ call # NoCall
  /\ call' = NoCall
  /\ thrown' = "none"
  /\ resource' = NoResource
  /\ subresource' = NoSubresource
  /\ validWithout' = FALSE
  /\ baseName' = ""
  /\ UNCHANGED <<visVars, existsVars, resolveVars, sourceVars>>

CtorNext ==
  \/ NewResource
  \/ SourceDataset
  \/ SourceNarrative
  \/ ReadIsRequestValidWithoutDataset
  \/ NewSubresource
  \/ ResourceSubresource
  \/ ReadBaseName
  \/ EndRequest

Init ==
  /\ CtorInit
  /\ VisInit
  /\ ExistsInit
  /\ availableDatasets = EmptyCache
  /\ ResolveIdle
  /\ SourceIdle

Spec == Init /\ [][CtorNext]_vars

(* ------------------------------------------------------------------ *)
(* visibleToUser                                                       *)
(* ------------------------------------------------------------------ *)

\* One access check handles one (source class, principal) pair, which it may
\* ask about any number of times, through the class or through an instance.
VisClasses(all) == IF visCall = NoVisCall THEN all ELSE {visCall.cls} \cap all
VisUsers == IF visCall = NoVisCall THEN Principals ELSE {visCall.user}

\* cls.visibleToUser(user), on any class of the hierarchy.
CallStaticVisibleToUser ==
  /\ visNew = NoNew
  /\ \E cls \in VisClasses(SourceClasses \cup FetchJsSourceClasses), user \in VisUsers :
       /\ visCall' = [kind |-> "static", cls |-> cls, source |-> NoSourceInstance,
                      user |-> user]
       /\ visible' = StaticVisibleToUser(cls, user)
       /\ UNCHANGED <<visNew, ctorVars, existsVars, resolveVars, sourceVars>>

\* source.visibleToUser(user), on an instance.
CallVisibleToUser ==
  /\ visNew = NoNew
  /\ \E cls \in VisClasses({ s.cls : s \in SourceInstances }), user \in VisUsers :
     \E source \in { s \in SourceInstances : s.cls = cls } :
       /\ visCall' = [kind |-> "instance", cls |-> source.cls, source |-> source,
                      user |-> user]
       /\ visible' = InstanceVisibleToUser(source, user)
       /\ UNCHANGED <<visNew, ctorVars, existsVars, resolveVars, sourceVars>>

\* The classes whose constructor is the implicit one: every class but
\* CommunitySource and UrlDefinedSource.
ImplicitlyConstructed == SourceClasses \ {"CommunitySource", "UrlDefinedSource"}

\* What `new cls()` throws for a class of ImplicitlyConstructed: no class
\* from Source down to it defines a constructor, so nothing.
ImplicitCtorThrows(cls) == "none"

\* `new cls()` on a class without a constructor of its own, the classes that
\* are only extended included.
NewSourceOfClass ==
  /\ visCall = NoVisCall
  /\ visNew = NoNew
  /\ \E cls \in ImplicitlyConstructed :
       visNew' = [cls |-> cls, thrown |-> ImplicitCtorThrows(cls)]
  /\ UNCHANGED <<visCall, visible, ctorVars, existsVars, resolveVars, sourceVars>>

\* The access check is over.
EndVisibleCheck ==
  /\ (visCall # NoVisCall \/ visNew # NoNew)
  /\ visCall' = NoVisCall
  /\ visible' = Returns(FALSE)
  /\ visNew' = NoNew
  /\ UNCHANGED <<ctorVars, existsVars, resolveVars, sourceVars>>

VisNext ==
  \/ CallStaticVisibleToUser
  \/ NewSourceOfClass
  \/ CallVisibleToUser
  \/ EndVisibleCheck

SpecVisible == Init /\ [][VisNext]_vars


(* ------------------------------------------------------------------ *)
(* The network                                                         *)
(* ------------------------------------------------------------------ *)

\* The statuses a request may be answered with.
Statuses == {200, 304, 404, 500}


(* ------------------------------------------------------------------ *)
(* Dataset.resolve()                                                   *)
(* ------------------------------------------------------------------ *)

\* The Datasets resolve() is called on: what the dataset() factories of the
\* core, staging and community sources construct.
ResolveReceivers ==
  { r \in [cls : ResourceClasses,
           source : { s \in RequestSources :
                        s.cls \in {"CoreSource", "CoreStagingSource", "CommunitySource"}
                        /\ s.branch = "" },
           pathParts : PathPartsInputs] :
      /\ r.cls = DatasetClassOf(r.source.cls)
      /\ ~ResourceCtorThrows(r.cls, r.source, r.pathParts) }

\* `global.availableDatasets[sourceName]` is truthy: the source has a
\* known-paths entry (an empty list is truthy too).
HasKnownPaths(cache, sourceName) == sourceName \in DOMAIN cache.known

\* The mutant of doesPathExist: the known paths are not consulted.
DoesPathExist_Never(cache, sourceName, pathToCheck) == FALSE

\* doesPathExist: `global.availableDatasets[sourceName].includes(pathToCheck)`
DoesPathExist(cache, sourceName, pathToCheck) ==
  pathToCheck \in cache.known[sourceName]

\* `global.availableDatasets.defaults[sourceName][prefix]`, "" standing for
\* undefined; evaluated only where defaults[sourceName] is an object.
NextDefaultPart(cache, sourceName, prefix) ==
  IF prefix \in DOMAIN cache.defaults[sourceName]
    THEN cache.defaults[sourceName][prefix]
    ELSE ""

\* The mutant of the new pathParts: the default is not appended.
NextPathParts_Same(prefixParts, nextDefaultPart) == prefixParts

\* The mutant of the new pathParts: the default replaces the last segment.
NextPathParts_ReplaceLast(prefixParts, nextDefaultPart) ==
  SubSeq(prefixParts, 1, Len(prefixParts) - 1) \o <<nextDefaultPart>>

\* `[...prefixParts, nextDefaultPart]`
NextPathParts(prefixParts, nextDefaultPart) == prefixParts \o <<nextDefaultPart>>

\* dataset.resolve() is called on a freshly constructed Dataset.
ResolveCall ==
  /\ rsPc = "idle"
  /\ \E r \in ResolveReceivers :
       /\ rsReceiver' = r
       /\ rsCur' = r
  /\ rsNew' = 0
  /\ rsPc' = "running"
  /\ rsResult' = NoResource
  /\ rsFirst' = NoResource
  /\ UNCHANGED <<availableDatasets, ctorVars, visVars, existsVars, sourceVars>>

\* The caller calls resolve() on the Dataset its previous resolve() returned.
ResolveAgain ==
  /\ rsPc = "returned"
  /\ rsReceiver' = rsResult
  /\ rsCur' = rsResult
  /\ rsNew' = 0
  /\ rsPc' = "running"
  /\ rsResult' = NoResource
  /\ rsFirst' = rsResult
  /\ UNCHANGED <<availableDatasets, ctorVars, visVars, existsVars, sourceVars>>

\* The mutant of `return this`: a copy of the Dataset is returned.
ResolveReturnsThis_Copy ==
  /\ rsPc' = "returned"
  /\ rsResult' = rsCur
  /\ rsNew' = rsNew + 1
  /\ UNCHANGED rsCur

\* `return this`
ResolveReturnsThis ==
  /\ rsPc' = "returned"
  /\ rsResult' = rsCur
  /\ UNCHANGED <<rsCur, rsNew>>

\* The mutant of the tail call: the new Dataset is returned as it is.
ResolveTail_NoRecursion(nextDataset) ==
  /\ rsCur' = nextDataset
  /\ rsNew' = rsNew + 1
  /\ rsPc' = "returned"
  /\ rsResult' = nextDataset

\* `return nextDataset.resolve()` on the Dataset just constructed: resolve()
\* goes on with a frame on that Dataset.
ResolveTail(nextDataset) ==
  /\ rsCur' = nextDataset
  /\ rsNew' = rsNew + 1
  /\ UNCHANGED <<rsPc, rsResult>>

\* One frame of resolve() on rsCur: it returns rsCur, or constructs the
\* Dataset of the longer path and returns what that one's resolve() returns
\* (a tail call: the next frame runs on the new Dataset), or it throws the
\* TypeError of reading a property of undefined.
ResolveFrame ==
  /\ rsPc = "running"
  /\ LET sourceName == SourceName(rsCur.source.cls)
         prefixParts == rsCur.pathParts
         prefix == Join(prefixParts, "/")
     IN  IF ~HasKnownPaths(availableDatasets, sourceName)
           THEN ResolveReturnsThis
         ELSE IF DoesPathExist(availableDatasets, sourceName, prefix)
           THEN ResolveReturnsThis
         ELSE IF sourceName \notin DOMAIN availableDatasets.defaults
           THEN /\ rsPc' = "thrown"
                /\ UNCHANGED <<rsCur, rsNew, rsResult>>
         ELSE IF NextDefaultPart(availableDatasets, sourceName, prefix) # ""
           THEN ResolveTail(ResourceObject(rsCur.cls, rsCur.source,
                              NextPathParts(prefixParts,
                                NextDefaultPart(availableDatasets, sourceName, prefix))))
         ELSE ResolveReturnsThis
  /\ UNCHANGED <<rsReceiver, rsFirst, availableDatasets, ctorVars, visVars, existsVars, sourceVars>>

\* The caller has the outcome; the request is over.
ResolveDone ==
  /\ rsPc \in {"returned", "thrown"}
  /\ rsReceiver' = NoResource
  /\ rsCur' = NoResource
  /\ rsNew' = 0
  /\ rsPc' = "idle"
  /\ rsResult' = NoResource
  /\ rsFirst' = NoResource
  /\ UNCHANGED <<availableDatasets, ctorVars, visVars, existsVars, sourceVars>>

ResolveNext ==
  \/ ResolveCall
  \/ ResolveAgain
  \/ ResolveFrame
  \/ ResolveDone

InitResolve ==
  /\ CtorInit
  /\ VisInit
  /\ ExistsInit
  /\ availableDatasets \in AvailabilityCaches
  /\ ResolveIdle
  /\ SourceIdle

SpecResolve == InitResolve /\ [][ResolveNext]_vars

\* resolve() is synchronous: once called, the engine runs its frames one after
\* the other without yielding, so a frame that can run does run.
SpecResolveFair == SpecResolve /\ WF_vars(ResolveFrame)

(* ------------------------------------------------------------------ *)
(* Source instances: construction and the default-branch lookup        *)
(* ------------------------------------------------------------------ *)

\* text.startsWith(prefix)
StartsWith(text, prefix) ==
  /\ Len(text) >= Len(prefix)
  /\ SubSeq(text, 1, Len(prefix)) = prefix

\* text.indexOf(pattern) + 1: where pattern first occurs in text, 0 when it
\* does not.
IndexOf(text, pattern) ==
  LET at == { i \in 1..(Len(text) - Len(pattern) + 1) :
                SubSeq(text, i, i + Len(pattern) - 1) = pattern }
  IN  IF at = {} THEN 0 ELSE CHOOSE i \in at : \A j \in at : i <= j

\* text.includes(pattern)
Includes(text, pattern) == IndexOf(text, pattern) # 0

\* text.replace(pattern, by) with a string pattern: the first occurrence.
ReplaceFirst(text, pattern, by) ==
  LET i == IndexOf(text, pattern)
  IN  IF i = 0 THEN text
      ELSE SubSeq(text, 1, i - 1) \o by \o SubSeq(text, i + Len(pattern), Len(text))

\* text.split(sep)
RECURSIVE Split(_, _)
Split(text, sep) ==
  LET i == IndexOf(text, sep)
  IN  IF i = 0 THEN <<text>>
      ELSE <<SubSeq(text, 1, i - 1)>> \o Split(SubSeq(text, i + Len(sep), Len(text)), sep)

\* text.replace(/pattern/g, by)
ReplaceAll(text, pattern, by) == Join(Split(text, pattern), by)

\* text.replace(/[.]md$/, "")
WithoutMdSuffix(text) ==
  IF EndsWith(text, ".md") THEN SubSeq(text, 1, Len(text) - Len(".md")) ELSE text

\* `${value}` where "" stands for undefined.
TemplateText(value) == IF value = "" THEN "undefined" ELSE value

\* array.map(f)
Map(list, f(_)) == [i \in 1..Len(list) |-> f(list[i])]

\* The classes of the request sources whose constructor takes no argument.
NoArgSourceClasses ==
  { s.cls : s \in RequestSources } \
    ({"CommunitySource", "UrlDefinedSource"} \cup FetchJsSourceClasses)

IsCoreSourceClass(cls) == cls \in {"CoreSource", "CoreStagingSource"}
IsUrlDefinedSourceClass(cls) == cls \in {"UrlDefinedSource"} \cup FetchJsSourceClasses
IsS3SourceClass(cls) == cls \in PublicGroupClasses \cup PrivateGroupClasses

\* The arguments the constructors are called with.
OwnerInputs == {"", "nextstrain"}
RepoNameInputs == {"", "community-test", "community-test@alt", "@alt"}
AuthorityInputs == {"", "github.com"}

\* `[this.repoName, this.branch] = repoName.split(/@/, 2)`
SplitRepoName(repoName) ==
  LET parts == Split(repoName, "@")
  IN  [repoName |-> parts[1],
       branch |-> IF Len(parts) >= 2 THEN parts[2] ELSE ""]

\* The three checks of the CommunitySource constructor.
CommunitySourceCtorThrows(owner, repoName) ==
  \/ owner = ""
  \/ repoName = ""
  \/ SplitRepoName(repoName).repoName = ""

\* this.branchExplicitlyDefined: the model keeps a pinned branch in the
\* instance's branch field and "" there when this.branch is the promise
\* this.defaultBranch.
BranchExplicitlyDefined(source) == source.branch # ""

\* The array `sources`, in the order the file lists its classes.
SourcesInOrder ==
  <<"CoreSource", "CoreStagingSource", "CommunitySource", "UrlDefinedSource",
    "BlabSource", "SeattleFluSource", "NextspainSource", "SwissSource",
    "COGUKSource", "NGSSASource", "ECDCSource", "IllinoisGagnonPublicSource",
    "NeherLabSource", "SpheresSource", "NIPHSource", "EPICOVIGALSource",
    "WAPHLSource", "ViennaRNASource", "SC2ZamPubSource", "NebraskaDHHSSource",
    "NcovHKSource",
    "BlabPrivateSource", "NzCovid19PrivateSource", "AllWalesPrivateSource",
    "IllinoisGagnonPrivateSource", "GrubaughLabPrivateSource", "InrbDrcSource",
    "ILRIPrivateSource", "PIGIEPrivateSource", "SC2ZamPrivateSource",
    "WallauLabPrivateSource", "NextfluPrivateSource",
    "DatabiomicsPrivateSource">>

\* new Map(entries.map(s => [s._name, s])): the entries are set one after the
\* other, so of two classes with the same _name the later one is kept.
RECURSIVE MapOfNames(_)
MapOfNames(entries) ==
  IF entries = <<>> THEN [x \in {} |-> x]
  ELSE LET n == Len(entries)
           m == MapOfNames(SubSeq(entries, 1, n - 1))
           k == SourceName(entries[n])
       IN  [x \in DOMAIN m \cup {k} |-> IF x = k THEN entries[n] ELSE m[x]]

\* The registry the module exports.
sourceMap == MapOfNames(SourcesInOrder)

\* The names a request may look up: those of the registered classes and one
\* that no class has.
NameInputs == { SourceName(cls) : cls \in sources } \cup {"nosuch"}

\* sourceMap.get(name): the class registered under the name, undefined when
\* there is none.  A request looks its source up before it constructs it.
SourceMapGet ==
  /\ inst = NoSourceInstance
  /\ srcThrown = "none"
  /\ \E name \in NameInputs :
       last' = [FreeCall EXCEPT
                  !.op = "sourceMap.get", !.key = name, !.pc = "done",
                  !.result = Returns(IF name \in DOMAIN sourceMap
                                       THEN sourceMap[name]
                                       ELSE JsUndefined)]
  /\ UNCHANGED <<inst, srcThrown, defaultBranch, lookups, observed, calls>>
  /\ UNCHANGED <<ctorVars, visVars, existsVars, resolveVars>>

\* new CoreSource(), new BlabSource(), ...: nothing to do, nothing to throw.
NewSource ==
  /\ inst = NoSourceInstance
  /\ srcThrown = "none"
  /\ \E cls \in NoArgSourceClasses :
       inst' = SourceInstance(cls, "", "", "", "")
  /\ last' = FreeCall
  /\ UNCHANGED <<srcThrown, defaultBranch, lookups, observed, calls>>
  /\ UNCHANGED <<ctorVars, visVars, existsVars, resolveVars>>

\* new UrlDefinedSource(authority), of either file.
NewUrlDefinedSource ==
  /\ inst = NoSourceInstance
  /\ srcThrown = "none"
  /\ \E cls \in {"UrlDefinedSource"} \cup FetchJsSourceClasses,
        authority \in AuthorityInputs :
       IF authority = ""
         THEN /\ srcThrown' = "Error"
              /\ UNCHANGED inst
         ELSE /\ inst' = SourceInstance(cls, "", "", "", authority)
              /\ UNCHANGED srcThrown
  /\ last' = FreeCall
  /\ UNCHANGED <<defaultBranch, lookups, observed, calls>>
  /\ UNCHANGED <<ctorVars, visVars, existsVars, resolveVars>>

\* new CommunitySource(owner, repoName): after its checks the constructor
\* calls fetch() for the repository and keeps the promise of its
\* default_branch in this.defaultBranch, whether or not repoName pins a
\* branch; an unpinned this.branch is that same promise.
NewCommunitySource ==
  /\ inst = NoSourceInstance
  /\ srcThrown = "none"
  /\ \E owner \in OwnerInputs, repoName \in RepoNameInputs :
       IF CommunitySourceCtorThrows(owner, repoName)
         THEN /\ srcThrown' = "Error"
              /\ UNCHANGED <<inst, defaultBranch, lookups>>
         ELSE /\ inst' = SourceInstance("CommunitySource", owner,
                           SplitRepoName(repoName).repoName,
                           SplitRepoName(repoName).branch, "")
              /\ defaultBranch' = PendingPromise
              /\ lookups' = lookups + 1
              /\ UNCHANGED srcThrown
  /\ last' = FreeCall
  /\ UNCHANGED <<observed, calls>>
  /\ UNCHANGED <<ctorVars, visVars, existsVars, resolveVars>>

\* How the lookup request ends: a JSON body with or without a default_branch
\* ("" for without: the body of an error answer), a body that is not JSON, or
\* a request that fails.
LookupOutcomes ==
  { [kind |-> "json", default_branch |-> b] : b \in {"main", ""} }
  \cup { [kind |-> k, default_branch |-> ""] : k \in {"notjson", "failed"} }

\* .then(res => res.json()).then(data => data.default_branch).catch(() => "master")
DefaultBranchOf(outcome) ==
  IF outcome.kind = "json" THEN outcome.default_branch ELSE "master"

\* The mutant of a promise's settling: a fulfilled promise settles again.
CanSettle_Again(promise) == promise.state \in {"pending", "fulfilled"}

\* A promise settles once: only while it is pending.
CanSettle(promise) == promise.state = "pending"

\* The lookup request ends and this.defaultBranch settles.
LookupSettles ==
  /\ CanSettle(defaultBranch)
  /\ \E outcome \in LookupOutcomes :
       defaultBranch' = Fulfilled(DefaultBranchOf(outcome))
  /\ last' = FreeCall
  /\ UNCHANGED <<inst, srcThrown, lookups, observed, calls>>
  /\ UNCHANGED <<ctorVars, visVars, existsVars, resolveVars>>

\* `await this.branch` can go on: the branch is a string, or the promise
\* this.defaultBranch has settled.
ThisBranchSettled == BranchExplicitlyDefined(inst) \/ defaultBranch.state = "fulfilled"

\* What `await this.branch` gives.
ThisBranch == IF BranchExplicitlyDefined(inst) THEN inst.branch ELSE defaultBranch.value

(* ------------------------------------------------------------------ *)
(* Source instances: the methods                                       *)
(* ------------------------------------------------------------------ *)

\* The calls in progress.
InProgress == BagToSet(calls)

\* A method may be called: calls in progress at once are followed on a
\* CommunitySource, whose calls share the promise of its branch; the calls on
\* the other sources share nothing and are followed one at a time.
MayCall ==
  /\ inst # NoSourceInstance
  /\ BagCardinality(calls) < MaxCalls
  /\ (calls = EmptyBag \/ inst.cls = "CommunitySource")

\* A call starts as c and is in progress.
Start(c) ==
  /\ calls' = calls (+) SetToBag({c})
  /\ last' = FreeCall

\* A call starts as c and settles to result at once.
Return(c, result) ==
  /\ UNCHANGED calls
  /\ last' = [c EXCEPT !.pc = "done", !.result = result]

\* The call in progress as c goes on as d.
Proceed(c, d) ==
  /\ calls' = (calls (-) SetToBag({c})) (+) SetToBag({d})
  /\ last' = FreeCall

\* The call in progress as c settles, as d, to result.
Settle(c, d, result) ==
  /\ calls' = calls (-) SetToBag({c})
  /\ last' = [d EXCEPT !.pc = "done", !.result = result]

\* The record getInfo() gives, a field that is not there being undefined.
InfoRecord(title, byline, website, showDatasets, showNarratives, avatar, overview, error) ==
  [title |-> title, byline |-> byline, website |-> website,
   showDatasets |-> showDatasets, showNarratives |-> showNarratives,
   avatar |-> avatar, overview |-> overview, error |-> error]

\* UrlDefinedSource.getInfo(): {}
EmptyInfo ==
  InfoRecord(JsUndefined, JsUndefined, JsUndefined, JsUndefined, JsUndefined,
             JsUndefined, JsUndefined, JsUndefined)

\* CoreSource.getInfo()
CoreInfo(source) ==
  InfoRecord("Nextstrain " \o SourceName(source.cls) \o " datasets & narratives",
             JsUndefined, JsUndefined, "true", "true",
             JsUndefined, JsUndefined, JsUndefined)

\* CommunitySource.repo
Repo(source) == source.owner \o "/" \o source.repoName

\* CommunitySource.getInfo() once the branch is there (the byline without its
\* line breaks and indentation, its arrow written "->").
CommunityInfo(source, branch) ==
  InfoRecord(source.owner \o "'s \"" \o source.repoName \o "\" community builds",
             "Nextstrain community builds for GitHub -> " \o Repo(source)
               \o " (" \o TemplateText(branch) \o " branch). The available datasets"
               \o " and narratives in this repository are listed below.",
             "null", "true", "true",
             "https://github.com/" \o source.owner \o ".png?size=200",
             JsUndefined, JsUndefined)

\* CommunitySource.baseUrl() once the branch is there.
CommunityBaseUrl(source, branch) ==
  "https://github.com/" \o Repo(source) \o "/raw/" \o TemplateText(branch) \o "/"

\* CommunitySource.repoNameWithBranch() once both awaits are through.
RepoNameWithBranch(source, branch, default) ==
  IF branch = default /\ ~BranchExplicitlyDefined(source)
    THEN source.repoName
    ELSE source.repoName \o "@" \o TemplateText(branch)

\* CoreSource.availableDatasets(): `global.availableDatasets[this.name] || []`
CoreAvailableDatasets(cache, source) ==
  IF HasKnownPaths(cache, SourceName(source.cls))
    THEN AsList(cache.known[SourceName(source.cls)])
    ELSE <<>>

\* source.baseUrl() on a CommunitySource: `await this.branch` comes first.
CallBaseUrl ==
  /\ inst.cls = "CommunitySource"
  /\ MayCall
  /\ Start([FreeCall EXCEPT !.op = "baseUrl", !.pc = "awaitBranch"])
  /\ UNCHANGED <<inst, srcThrown, defaultBranch, lookups, observed>>
  /\ UNCHANGED <<ctorVars, visVars, existsVars, resolveVars>>

\* source.repoNameWithBranch(), a method of CommunitySource only.
CallRepoNameWithBranch ==
  /\ inst.cls = "CommunitySource"
  /\ MayCall
  /\ Start([FreeCall EXCEPT !.op = "repoNameWithBranch", !.pc = "awaitBranch"])
  /\ UNCHANGED <<inst, srcThrown, defaultBranch, lookups, observed>>
  /\ UNCHANGED <<ctorVars, visVars, existsVars, resolveVars>>

\* source.availableDatasets(): CoreSource reads the cache, UrlDefinedSource
\* gives [], CommunitySource awaits its branch, S3Source starts listing its
\* bucket.
CallAvailableDatasets ==
  /\ MayCall
  /\ LET c == [FreeCall EXCEPT !.op = "availableDatasets"]
     IN  CASE inst.cls = "CommunitySource" -> Start([c EXCEPT !.pc = "awaitBranch"])
           [] IsCoreSourceClass(inst.cls) ->
                Return(c, Returns(CoreAvailableDatasets(availableDatasets, inst)))
           [] IsUrlDefinedSourceClass(inst.cls) -> Return(c, Returns(<<>>))
           [] IsS3SourceClass(inst.cls) ->
                Start([c EXCEPT !.pc = "awaitPages", !.listing = PendingPromise])
  /\ UNCHANGED <<inst, srcThrown, defaultBranch, lookups, observed>>
  /\ UNCHANGED <<ctorVars, visVars, existsVars, resolveVars>>

\* source.availableNarratives(): CoreSource asks GitHub for the contents of
\* its repository (its branch is a plain getter), UrlDefinedSource gives [],
\* CommunitySource awaits its branch, S3Source starts listing its bucket.
CallAvailableNarratives ==
  /\ MayCall
  /\ LET c == [FreeCall EXCEPT !.op = "availableNarratives"]
     IN  CASE inst.cls = "CommunitySource" -> Start([c EXCEPT !.pc = "awaitBranch"])
           [] IsCoreSourceClass(inst.cls) -> Start([c EXCEPT !.pc = "awaitListing"])
           [] IsUrlDefinedSourceClass(inst.cls) -> Return(c, Returns(<<>>))
           [] IsS3SourceClass(inst.cls) ->
                Start([c EXCEPT !.pc = "awaitPages", !.listing = PendingPromise])
  /\ UNCHANGED <<inst, srcThrown, defaultBranch, lookups, observed>>
  /\ UNCHANGED <<ctorVars, visVars, existsVars, resolveVars>>

\* source.getInfo(): CoreSource and UrlDefinedSource give a fixed record,
\* CommunitySource awaits its branch, S3Source starts listing its bucket.
\* The paths secondTreeOptions() is asked about.
PathInputs == { Join(q, "/") : q \in PathPartsInputs }

\* secondTreeOptions(path): CoreSource reads
\* `(global.availableDatasets.secondTreeOptions[this.name] || {})[path] || []`,
\* every other class inherits Source's [].
SecondTreeOptions(cache, source, path) ==
  LET name == SourceName(source.cls)
  IN  IF ~IsCoreSourceClass(source.cls) THEN <<>>
      ELSE IF name \notin DOMAIN cache.secondTreeOptions THEN <<>>
      ELSE IF path \notin DOMAIN cache.secondTreeOptions[name] THEN <<>>
      ELSE cache.secondTreeOptions[name][path]

\* The mutant of secondTreeOptions(): a source without an entry is given an
\* empty one in the cache.
CallSecondTreeOptions_FillsIn ==
  /\ MayCall
  /\ \E path \in PathInputs :
       Return([FreeCall EXCEPT !.op = "secondTreeOptions"],
              Returns(SecondTreeOptions(availableDatasets, inst, path)))
  /\ availableDatasets' =
       IF SourceName(inst.cls) \in DOMAIN availableDatasets.secondTreeOptions
         THEN availableDatasets
         ELSE [availableDatasets EXCEPT
                 !.secondTreeOptions = [n \in {SourceName(inst.cls)} |-> EmptyObject]]
  /\ UNCHANGED <<rsReceiver, rsCur, rsNew, rsPc, rsResult, rsFirst>>
  /\ UNCHANGED <<inst, srcThrown, defaultBranch, lookups, observed>>
  /\ UNCHANGED <<ctorVars, visVars, existsVars>>

\* source.secondTreeOptions(path) is called and returns (it is synchronous).
CallSecondTreeOptions ==
  /\ MayCall
  /\ \E path \in PathInputs :
       Return([FreeCall EXCEPT !.op = "secondTreeOptions"],
              Returns(SecondTreeOptions(availableDatasets, inst, path)))
  /\ UNCHANGED <<inst, srcThrown, defaultBranch, lookups, observed>>
  /\ UNCHANGED <<ctorVars, visVars, existsVars, resolveVars>>

CallGetInfo ==
  /\ MayCall
  /\ LET c == [FreeCall EXCEPT !.op = "getInfo"]
     IN  CASE inst.cls = "CommunitySource" -> Start([c EXCEPT !.pc = "awaitBranch"])
           [] IsCoreSourceClass(inst.cls) -> Return(c, Returns(CoreInfo(inst)))
           [] IsUrlDefinedSourceClass(inst.cls) -> Return(c, Returns(EmptyInfo))
           [] IsS3SourceClass(inst.cls) ->
                Start([c EXCEPT !.pc = "awaitPages", !.listing = PendingPromise])
  /\ UNCHANGED <<inst, srcThrown, defaultBranch, lookups, observed>>
  /\ UNCHANGED <<ctorVars, visVars, existsVars, resolveVars>>

\* `await this.branch` gives its value to a call on a CommunitySource:
\* baseUrl() and getInfo() return, repoNameWithBranch() goes on to
\* `await this.defaultBranch`, the listings call fetch().
AwaitBranch ==
  /\ ThisBranchSettled
  /\ \E a \in InProgress :
       /\ a.pc = "awaitBranch"
       /\ LET c == [a EXCEPT !.branch = ThisBranch]
          IN  CASE c.op = "baseUrl" ->
                     Settle(a, c, Returns(CommunityBaseUrl(inst, ThisBranch)))
                [] c.op = "getInfo" ->
                     Settle(a, c, Returns(CommunityInfo(inst, ThisBranch)))
                [] c.op = "repoNameWithBranch" ->
                     Proceed(a, [c EXCEPT !.pc = "awaitDefaultBranch"])
                [] c.op \in {"availableDatasets", "availableNarratives"} ->
                     Proceed(a, [c EXCEPT !.pc = "awaitListing"])
  /\ observed' = observed \cup {ThisBranch}
  /\ UNCHANGED <<inst, srcThrown, defaultBranch, lookups>>
  /\ UNCHANGED <<ctorVars, visVars, existsVars, resolveVars>>

\* `await this.defaultBranch` gives its value to repoNameWithBranch().
AwaitDefaultBranch ==
  /\ defaultBranch.state = "fulfilled"
  /\ \E a \in InProgress :
       /\ a.pc = "awaitDefaultBranch"
       /\ Settle(a, a,
                 Returns(RepoNameWithBranch(inst, a.branch, defaultBranch.value)))
  /\ UNCHANGED <<inst, srcThrown, defaultBranch, lookups, observed>>
  /\ UNCHANGED <<ctorVars, visVars, existsVars, resolveVars>>

(* ------------------------------------------------------------------ *)
(* Source instances: the listings of GitHub                            *)
(* ------------------------------------------------------------------ *)

\* The entries a contents listing of GitHub may hold.
GitHubFiles ==
  { [name |-> n, type |-> "file"] :
      n \in {"README.md", "flu_seasonal.md", "community-test_zika.md",
             "community-test_zika_tutorial.json"} }
  \cup { [name |-> "community-test", type |-> "dir"] }

\* The sublists of at most n elements of a list.
RECURSIVE SublistsUpTo(_, _)
SublistsUpTo(list, n) ==
  IF list = <<>> \/ n = 0 THEN {<<>>}
  ELSE SublistsUpTo(Tail(list), n)
       \cup { <<Head(list)>> \o rest : rest \in SublistsUpTo(Tail(list), n - 1) }

\* The listings the contents API may give.
GitHubListings == SublistsUpTo(AsList(GitHubFiles), MaxFiles)

\* What the contents API can answer to a listing request: a 200 with a
\* listing, a 304 whose body (through the caching fetch) is a listing or
\* nothing that parses, a 404, a 500, or no answer at all.
ListingAnswers ==
  { Response(200, TRUE, files) : files \in GitHubListings }
  \cup { Response(304, TRUE, AsList(GitHubFiles)) }
  \cup { Response(status, FALSE, <<>>) : status \in Statuses \ {200} }
  \cup { FailedRequest }

\* `response.status !== 200 && response.status !== 304` is false.
IsListingSuccess(status) == status \in {200, 304}

\* The narrative a file name stands for: `.replace(/[.]md$/, "").split("_").join("/")`
NarrativeOfFileName(name) == Join(Split(WithoutMdSuffix(name), "_"), "/")

\* The filters and the map of CoreSource.availableNarratives() on the files.
CoreNarrativeNames(files) ==
  Map(SelectSeq(files, LAMBDA file :
                  /\ file.type = "file"
                  /\ file.name # "README.md"
                  /\ EndsWith(file.name, ".md")),
      LAMBDA file : NarrativeOfFileName(file.name))

\* The filters and the map of CommunitySource.availableNarratives().
CommunityNarrativeNames(source, files) ==
  Map(SelectSeq(files, LAMBDA file :
                  /\ file.type = "file"
                  /\ file.name # "README.md"
                  /\ EndsWith(file.name, ".md")
                  /\ StartsWith(file.name, source.repoName)),
      LAMBDA file :
        LET unprefixed == ReplaceFirst(file.name, source.repoName, "")
            bare == IF StartsWith(unprefixed, "_")
                      THEN SubSeq(unprefixed, 2, Len(unprefixed)) ELSE unprefixed
        IN  NarrativeOfFileName(bare))

\* A list without the later occurrences of its elements.
RECURSIVE Distinct(_)
Distinct(list) ==
  IF list = <<>> THEN <<>>
  ELSE LET rest == Distinct(SubSeq(list, 1, Len(list) - 1))
           x == list[Len(list)]
       IN  IF \E i \in 1..Len(rest) : rest[i] = x THEN rest ELSE Append(rest, x)

\* A file name without the sidecar suffix it may end in.
RECURSIVE WithoutSidecarSuffix(_, _)
WithoutSidecarSuffix(stem, types) ==
  IF types = {} THEN stem
  ELSE LET type == CHOOSE t \in types : TRUE
       IN  IF EndsWith(stem, "_" \o type)
             THEN SubSeq(stem, 1, Len(stem) - Len("_" \o type))
             ELSE WithoutSidecarSuffix(stem, types \ {type})

\* utils.getDatasetsFromListOfFilenames: the dataset paths a flat list of
\* file names stands for (the .json files, sidecar suffixes stripped,
\* underscores turned into slashes, each path once).
GetDatasetsFromListOfFilenames(filenames) ==
  Distinct(
    Map(SelectSeq(filenames, LAMBDA name : EndsWith(name, ".json")),
        LAMBDA name :
          Join(Split(WithoutSidecarSuffix(WithoutJsonSuffix(name),
                                          DatasetValidTypes \ {"main"}), "_"), "/")))

\* The filters and the maps of CommunitySource.availableDatasets().
CommunityDatasetNames(source, files) ==
  Map(GetDatasetsFromListOfFilenames(
        Map(SelectSeq(files, LAMBDA file :
                        /\ file.type = "file"
                        /\ StartsWith(file.name, source.repoName)),
            LAMBDA file : file.name)),
      LAMBDA pathname : ReplaceFirst(pathname, source.repoName \o "/", ""))

\* CoreSource.availableNarratives() from the answer of fetch() on.
CoreAvailableNarratives(source, response) ==
  IF response.kind = "failed" THEN Throws("FetchError")
  ELSE IF response.status = 404 THEN Throws("NotFound")
  ELSE IF ~IsListingSuccess(response.status) THEN Returns(<<>>)
  ELSE IF ~response.parsable THEN Throws("SyntaxError")
  ELSE Returns(CoreNarrativeNames(response.files))

\* The mutant of CommunitySource.availableDatasets(): a 404 is treated as
\* every other status that is not a success.
CommunityAvailableDatasets_No404(source, response) ==
  IF response.kind = "failed" THEN Throws("FetchError")
  ELSE IF ~IsListingSuccess(response.status) THEN Returns(<<>>)
  ELSE IF ~response.parsable THEN Throws("SyntaxError")
  ELSE Returns(CommunityDatasetNames(source, response.files))

\* CommunitySource.availableDatasets() from the answer of fetch() on.
CommunityAvailableDatasets(source, response) ==
  IF response.kind = "failed" THEN Throws("FetchError")
  ELSE IF response.status = 404 THEN Throws("NotFound")
  ELSE IF ~IsListingSuccess(response.status) THEN Returns(<<>>)
  ELSE IF ~response.parsable THEN Throws("SyntaxError")
  ELSE Returns(CommunityDatasetNames(source, response.files))

\* CommunitySource.availableNarratives() from the answer of fetch() on: a 404
\* is not told apart from the other statuses but for the warning.
CommunityAvailableNarratives(source, response) ==
  IF response.kind = "failed" THEN Throws("FetchError")
  ELSE IF ~IsListingSuccess(response.status) THEN Returns(<<>>)
  ELSE IF ~response.parsable THEN Throws("SyntaxError")
  ELSE Returns(CommunityNarrativeNames(source, response.files))

\* fetch() of the contents listing settles and the listing method runs to its
\* end.
ListingAnswer ==
  /\ \E a \in InProgress :
       /\ a.pc = "awaitListing"
       /\ \E response \in ListingAnswers :
            LET c == [a EXCEPT !.response = response]
            IN  CASE IsCoreSourceClass(inst.cls) ->
                       Settle(a, c, CoreAvailableNarratives(inst, response))
                  [] inst.cls = "CommunitySource" /\ c.op = "availableDatasets" ->
                       Settle(a, c, CommunityAvailableDatasets(inst, response))
                  [] inst.cls = "CommunitySource" /\ c.op = "availableNarratives" ->
                       Settle(a, c, CommunityAvailableNarratives(inst, response))
  /\ UNCHANGED <<inst, srcThrown, defaultBranch, lookups, observed>>
  /\ UNCHANGED <<ctorVars, visVars, existsVars, resolveVars>>

(* ------------------------------------------------------------------ *)
(* Source instances: the bucket of an S3Source                         *)
(* ------------------------------------------------------------------ *)

\* The keys a bucket may hold.
ObjectKeys == {"group-overview.md", "group-logo.png", "flu_seasonal.json", "flu_seasonal.md"}

\* What eachPage() hands its callback: a page of objects (data.Contents), the
\* end of the listing (data === null), or an error.
PageEvent(kind, contents) == [kind |-> kind, Contents |-> contents]
PageEvents ==
  { PageEvent("data", contents) :
      contents \in {<<>>} \cup { <<[Key |-> k]>> : k \in ObjectKeys } }
  \cup { PageEvent("end", <<>>), PageEvent("error", <<>>) }

\* The pages of objects among page events.
DataPages(pages) == SelectSeq(pages, LAMBDA page : page.kind = "data")

\* The mutant of the gathering: the page replaces what was gathered.
Concat_LastPage(contents, page) == page

\* `contents.concat(data.Contents)`
Concat(contents, page) == contents \o page

\* get bucket()
Bucket(source) ==
  CASE source.cls = "InrbDrcSource" -> "nextstrain-inrb"
    [] source.cls = "NcovHKSource" -> "nextstrain-ncovhk"
    [] source.cls = "ViennaRNASource" -> "nextstrain-viennarna"
    [] source.cls = "SC2ZamPubSource" -> "nextstrain-sc2zampub"
    [] source.cls = "SC2ZamPrivateSource" -> "nextstrain-sc2zam"
    [] OTHER -> "nextstrain-" \o SourceName(source.cls)

\* S3.getSignedUrl(operation, {Bucket, Key})
SignedUrl(operation, bucket, key) ==
  "https://" \o bucket \o ".s3.amazonaws.com/" \o key \o "?signed=" \o operation

\* The callback of eachPage() in _listObjects() runs on one page event: an
\* error rejects the promise, the end of the listing resolves it with what
\* was gathered, a page is gathered and the next one asked for.
ListObjectsPage ==
  /\ \E a \in InProgress :
       /\ a.pc = "awaitPages"
       /\ \E page \in PageEvents :
            /\ page.kind = "data" => Len(DataPages(a.pages)) < MaxPages
            /\ LET c == [a EXCEPT !.pages = Append(@, page)]
               IN  CASE page.kind = "error" ->
                          Proceed(a, [c EXCEPT !.listing = Rejected("S3Error"),
                                               !.pc = "listed"])
                     [] page.kind = "end" ->
                          Proceed(a, [c EXCEPT !.listing = Fulfilled(c.contents),
                                               !.pc = "listed"])
                     [] page.kind = "data" ->
                          Proceed(a, [c EXCEPT !.contents = Concat(@, page.Contents)])
  /\ UNCHANGED <<inst, srcThrown, defaultBranch, lookups, observed>>
  /\ UNCHANGED <<ctorVars, visVars, existsVars, resolveVars>>

\* objects.map((object) => object.Key)
KeysOf(objects) == Map(objects, LAMBDA object : object.Key)

\* The filters and the map of S3Source.availableNarratives() on the keys.
S3NarrativeNames(keys) ==
  Map(SelectSeq(keys, LAMBDA file :
                  /\ file # "group-overview.md"
                  /\ EndsWith(file, ".md")),
      LAMBDA file : NarrativeOfFileName(file))

\* S3Source.availableDatasets() goes on after `await this._listObjects()`: a
\* rejection is not caught.
S3AvailableDatasetsResumes ==
  /\ \E a \in InProgress :
       /\ a.pc = "listed"
       /\ a.op = "availableDatasets"
       /\ IF a.listing.state = "rejected"
            THEN Settle(a, a, Throws(a.listing.value))
            ELSE Settle(a, a,
                        Returns(GetDatasetsFromListOfFilenames(
                                  KeysOf(a.listing.value))))
  /\ UNCHANGED <<inst, srcThrown, defaultBranch, lookups, observed>>
  /\ UNCHANGED <<ctorVars, visVars, existsVars, resolveVars>>

\* S3Source.availableNarratives() goes on after `await this._listObjects()`:
\* a rejection is not caught.
S3AvailableNarrativesResumes ==
  /\ \E a \in InProgress :
       /\ a.pc = "listed"
       /\ a.op = "availableNarratives"
       /\ IF a.listing.state = "rejected"
            THEN Settle(a, a, Throws(a.listing.value))
            ELSE Settle(a, a,
                        Returns(S3NarrativeNames(KeysOf(a.listing.value))))
  /\ UNCHANGED <<inst, srcThrown, defaultBranch, lookups, observed>>
  /\ UNCHANGED <<ctorVars, visVars, existsVars, resolveVars>>

\* The byline of a group without an overview of its own.
GroupByline == "The available datasets and narratives in this group are listed below."

\* The mutant of the catch block of getInfo(): the error is thrown on.
FallbackInfo_Rethrown(source, message) == Throws(message)

\* The catch block of S3Source.getInfo(): the fallback record.
FallbackInfo(source, message) ==
  Returns(InfoRecord("\"" \o SourceName(source.cls) \o "\" Nextstrain group",
                     GroupByline, "null", "true", "true",
                     JsUndefined, JsUndefined,
                     "Error in custom group info: " \o message))

\* S3Source.getInfo() goes on after `await this._listObjects()`, inside its
\* try block: a rejected listing and a failing getSignedUrl() end in the catch
\* block; with a group-overview.md among the keys getObject() is called;
\* without one the record of the defaults is returned.
S3GetInfoResumes ==
  /\ \E a \in InProgress :
       /\ a.pc = "listed"
       /\ a.op = "getInfo"
       /\ IF a.listing.state = "rejected"
            THEN Settle(a, a, FallbackInfo(inst, a.listing.value))
            ELSE LET objectKeys == KeysOf(a.listing.value)
                     has(key) == \E k \in 1..Len(objectKeys) : objectKeys[k] = key
                 IN  \E signs \in (IF has("group-logo.png") THEN BOOLEAN ELSE {TRUE}) :
                       LET c == [a EXCEPT !.logoSrc =
                                   IF has("group-logo.png")
                                     THEN SignedUrl("getObject", Bucket(inst), "group-logo.png")
                                     ELSE JsUndefined]
                       IN  IF ~signs
                             THEN Settle(a, a, FallbackInfo(inst, "CredentialsError"))
                           ELSE IF has("group-overview.md")
                             THEN Proceed(a, [c EXCEPT !.pc = "awaitObject"])
                           ELSE Settle(a, c,
                                  Returns(InfoRecord(
                                    "\"" \o SourceName(inst.cls) \o "\" Nextstrain group",
                                    GroupByline, "null", "true", "true",
                                    c.logoSrc, JsUndefined, JsUndefined)))
  /\ UNCHANGED <<inst, srcThrown, defaultBranch, lookups, observed>>
  /\ UNCHANGED <<ctorVars, visVars, existsVars, resolveVars>>

\* JavaScript values written as text: what is falsy, what == null, what is a
\* boolean.
IsTruthy(value) == value \notin {JsUndefined, "null", "false", "0", ""}
IsNullish(value) == value \in {JsUndefined, "null"}
IsBoolean(value) == value \in {"true", "false"}

\* The values a front matter may give showDatasets and showNarratives.
ShowInputs == {JsUndefined, "null", "true", "false", "0", "yes"}

\* The front matters of the overview files: every pair of showDatasets and
\* showNarratives on an otherwise plain overview, and that overview with its
\* title left out, with a website with and without "http", with a byline,
\* and with CRLF line ends.
PlainFrontMatter == FrontMatter("Blab", JsUndefined, JsUndefined, JsUndefined, JsUndefined, "Hello")
FrontMatters ==
  { [PlainFrontMatter EXCEPT !.showDatasets = d, !.showNarratives = n] :
      d \in ShowInputs, n \in ShowInputs }
  \cup { [PlainFrontMatter EXCEPT !.title = JsUndefined],
         [PlainFrontMatter EXCEPT !.website = "https://bedford.io"],
         [PlainFrontMatter EXCEPT !.website = "bedford.io"],
         [PlainFrontMatter EXCEPT !.byline = "Bedford lab"],
         [PlainFrontMatter EXCEPT !.content = "Hello\r\nworld\r\n"] }

\* What getObject() can answer: a failure, or an object, gzip-encoded or not
\* by its ContentEncoding, whose Body is gzip data or not, front matter or
\* not.
ObjectAnswers ==
  { FailedObject }
  \cup { S3Object(encoding, gzipped, TRUE, frontMatter) :
           encoding \in {"gzip", ""}, gzipped \in BOOLEAN, frontMatter \in FrontMatters }
  \cup { S3Object(encoding, gzipped, FALSE, PlainFrontMatter) :
           encoding \in {"gzip", ""}, gzipped \in BOOLEAN }

\* getAndDecompressObject(key) from the answer of getObject() on: the
\* rejection goes through, gunzipSync() throws on a Body that is not gzip
\* data, and a Body that is gzip data but not said to be is handed on as it
\* is, which is no front matter.
GetAndDecompressObject(object) ==
  IF object.kind = "failed" THEN Throws("S3Error")
  ELSE IF object.ContentEncoding = "gzip"
    THEN IF object.gzipped
           THEN Returns([yaml |-> object.yaml, frontMatter |-> object.frontMatter])
           ELSE Throws("ZlibError")
  ELSE Returns([yaml |-> object.yaml /\ ~object.gzipped,
                frontMatter |-> object.frontMatter])

\* parseOverviewMarkdown(overviewMarkdown): a text without front matter has
\* no title (the messages are written without their backquotes).
ParseOverviewMarkdown(body) ==
  LET frontMatter == body.frontMatter
  IN  IF ~body.yaml \/ ~IsTruthy(frontMatter.title)
        THEN Throws("The overview file requires title in the frontmatter.")
      ELSE IF IsTruthy(frontMatter.website) /\ ~Includes(frontMatter.website, "http")
        THEN Throws("The website field in the overview file requires \"http\" to be present.")
      ELSE IF IsTruthy(frontMatter.showDatasets) /\ ~IsBoolean(frontMatter.showDatasets)
        THEN Throws("The showDatasets field in the frontmatter must be a boolean.")
      ELSE IF IsTruthy(frontMatter.showNarratives) /\ ~IsBoolean(frontMatter.showNarratives)
        THEN Throws("The showNarratives field in the frontmatter must be a boolean.")
      ELSE Returns([frontMatter EXCEPT
                      !.content = ReplaceAll(frontMatter.content, "\r\n", "\n")])

\* The rest of the try block of getInfo() once getObject() has answered.
InfoWithOverview(source, logoSrc, object) ==
  LET body == GetAndDecompressObject(object)
      parsed == ParseOverviewMarkdown(body.value)
  IN  IF body.thrown # "none" THEN FallbackInfo(source, body.thrown)
      ELSE IF parsed.thrown # "none" THEN FallbackInfo(source, parsed.thrown)
      ELSE Returns(InfoRecord(
             parsed.value.title, parsed.value.byline, parsed.value.website,
             IF IsNullish(parsed.value.showDatasets)
               THEN "true" ELSE parsed.value.showDatasets,
             IF IsNullish(parsed.value.showNarratives)
               THEN "true" ELSE parsed.value.showNarratives,
             logoSrc, parsed.value.content, JsUndefined))

\* getObject() of group-overview.md settles and getInfo() runs to its end.
GetObjectAnswer ==
  /\ \E a \in InProgress :
       /\ a.pc = "awaitObject"
       /\ \E object \in ObjectAnswers :
            Settle(a, [a EXCEPT !.object = object],
                   InfoWithOverview(inst, a.logoSrc, object))
  /\ UNCHANGED <<inst, srcThrown, defaultBranch, lookups, observed>>
  /\ UNCHANGED <<ctorVars, visVars, existsVars, resolveVars>>

\* The availability cache a Source instance finds: known paths of the core
\* source, none of the staging source.
SourceCache ==
  [known |-> [n \in {"core"} |-> {"flu", "flu/seasonal"}], defaults |-> EmptyObject,
   secondTreeOptions |-> [n \in {"core"} |-> SecondTreesAmong({"flu", "flu/seasonal"})]]

SourceNext ==
  \/ SourceMapGet
  \/ NewSource
  \/ NewUrlDefinedSource
  \/ NewCommunitySource
  \/ LookupSettles
  \/ CallBaseUrl
  \/ CallRepoNameWithBranch
  \/ CallAvailableDatasets
  \/ CallAvailableNarratives
  \/ CallGetInfo
  \/ CallSecondTreeOptions
  \/ AwaitBranch
  \/ AwaitDefaultBranch
  \/ ListingAnswer
  \/ ListObjectsPage
  \/ S3AvailableDatasetsResumes
  \/ S3AvailableNarrativesResumes
  \/ S3GetInfoResumes
  \/ GetObjectAnswer

InitSource ==
  /\ CtorInit
  /\ VisInit
  /\ ExistsInit
  /\ availableDatasets = SourceCache
  /\ ResolveIdle
  /\ SourceIdle

SpecSource == InitSource /\ [][SourceNext]_vars

(* ------------------------------------------------------------------ *)
(* exists() and url()                                                  *)
(* ------------------------------------------------------------------ *)

\* The `method` arguments url() is called with; "undefined" is the argument
\* left out.
MethodInputs == {JsUndefined, "GET", "HEAD", "PUT"}

\* The parameter `method = 'GET'` of url() and urlFor().
MethodOrDefault(method) == IF method = JsUndefined THEN "GET" ELSE method

\* The getters repo and branch of CoreSource and CoreStagingSource.
CoreRepo(source) == "nextstrain/narratives"
CoreBranch(source) == IF source.cls = "CoreStagingSource" THEN "staging" ELSE "master"

\* What `await this.branch` may give on source: the constant of the core
\* classes, the pinned branch of a CommunitySource or what its lookup settled
\* to; "" (undefined) on the classes without a branch.
BranchValues(source) ==
  CASE IsCoreSourceClass(source.cls) -> {CoreBranch(source)}
    [] source.cls = "CommunitySource" ->
         IF BranchExplicitlyDefined(source) THEN {source.branch}
         ELSE { DefaultBranchOf(outcome) : outcome \in LookupOutcomes }
    [] OTHER -> {""}

\* await source.baseUrl()
BaseUrl(source, branch) ==
  CASE source.cls = "CoreSource" -> "http://data.nextstrain.org/"
    [] source.cls = "CoreStagingSource" -> "http://staging.nextstrain.org/"
    [] source.cls = "CommunitySource" -> CommunityBaseUrl(source, branch)
    [] IsUrlDefinedSourceClass(source.cls) -> "https://" \o source.authority
    [] IsS3SourceClass(source.cls) -> "https://" \o Bucket(source) \o ".s3.amazonaws.com"

\* Where "/" last occurs in the first n characters of text, 0 when nowhere.
RECURSIVE LastSlash(_, _)
LastSlash(text, n) ==
  IF n = 0 THEN 0
  ELSE IF SubSeq(text, n, n) = "/" THEN n
  ELSE LastSlash(text, n - 1)

\* new URL(path, base).toString() for a relative path of plain segments: the
\* path replaces what follows the last "/" of the path of base, and a base
\* that is an origin alone has the path "/".
UrlResolve(path, base) ==
  LET origin == IndexOf(base, "://") + 2
      slash == LastSlash(base, Len(base))
  IN  IF slash > origin
        THEN SubSeq(base, 1, slash) \o path
        ELSE base \o "/" \o path

\* The URL urlFor() gives: what signed it ("" when it is not signed), for
\* which bucket and key, the root the key was resolved against ("" when
\* signed), and its text.
UnsignedUrl(root, path) ==
  [operation |-> "", bucket |-> "", key |-> path, root |-> root,
   text |-> UrlResolve(path, root)]
SignedUrlFor(operation, bucket, key) ==
  [operation |-> operation, bucket |-> bucket, key |-> key, root |-> "",
   text |-> SignedUrl(operation, bucket, key)]

\* The mutant of the operation of a signature: getObject for every method.
SignOperation_AlwaysGet(method) == "getObject"

\* PrivateS3Source.urlFor: method === "HEAD" ? "headObject" : "getObject"
SignOperation(method) == IF method = "HEAD" THEN "headObject" ELSE "getObject"

\* The mutant of CoreSource.urlFor: every key against baseUrl().
CoreRoot_BaseUrl(source, branch, path) == BaseUrl(source, branch)

\* CoreSource.urlFor: the root a key is resolved against.
CoreRoot(source, branch, path) ==
  IF EndsWith(path, ".md")
    THEN "https://raw.githubusercontent.com/" \o CoreRepo(source) \o "/"
           \o TemplateText(branch) \o "/"
    ELSE BaseUrl(source, branch)

\* await source.urlFor(path, method): PrivateS3Source signs, CoreSource picks
\* the root by the key, every other class inherits Source.urlFor.
UrlFor(source, branch, path, method) ==
  CASE source.cls \in PrivateGroupClasses ->
         SignedUrlFor(SignOperation(MethodOrDefault(method)), Bucket(source), path)
    [] IsCoreSourceClass(source.cls) ->
         UnsignedUrl(CoreRoot(source, branch, path), path)
    [] OTHER -> UnsignedUrl(BaseUrl(source, branch), path)

\* resource.subresource(type)
SubresourceOf(r, type) ==
  [cls |-> SubresourceClassOf(r.cls), resource |-> r, type |-> type]

\* await resource.subresource(type).url(method), as the call on r records it.
Url(r, type, method, branch) ==
  [type |-> type, method |-> method, branch |-> branch,
   url |-> UrlFor(r.source, branch, SubresourceBaseName(SubresourceOf(r, type)),
                  MethodOrDefault(method))]

\* The Resources exists() is called on: what the factories of the request
\* sources construct from a path of at most one segment.
ExistsReceivers ==
  { r \in [cls : ResourceClasses, source : RequestSources,
           pathParts : { q \in PathPartsInputs : Len(q) <= 1 }] :
      /\ r.cls \in {DatasetClassOf(r.source.cls), NarrativeClassOf(r.source.cls)}
      /\ ~ResourceCtorThrows(r.cls, r.source, r.pathParts) }

\* The classes whose own exists() assumes existence: fetch.js's
\* UrlDefinedDataset and UrlDefinedNarrative.  The classes of the same names
\* in sources.js define no exists() and inherit Dataset's and Narrative's.
ExistsAssumed(cls) ==
  cls \in {"fetch.js:UrlDefinedDataset", "fetch.js:UrlDefinedNarrative"}

\* fetch(url, {method, cache: "no-store"}) is called for subresource `type`.
Request(type, method) == [kind |-> "request", method |-> method, type |-> type, status |-> 0]
\* The fetch for `type` resolves with a response of that status.
Answer(type, status) == [kind |-> "answer", method |-> "", type |-> type, status |-> status]
\* The fetch for `type` rejects.
Reject(type) == [kind |-> "reject", method |-> "", type |-> type, status |-> 0]

Requested == { exLog[i].type : i \in { j \in DOMAIN exLog : exLog[j].kind = "request" } }
Settled == { exLog[i].type : i \in { j \in DOMAIN exLog : exLog[j].kind # "request" } }
InFlight == Requested \ Settled

\* The status `type` was answered with in log, 0 when it was not answered.
StatusIn(log, type) ==
  LET at == { i \in DOMAIN log : log[i].kind = "answer" /\ log[i].type = type }
  IN  IF at = {} THEN 0 ELSE log[CHOOSE i \in at : TRUE].status

\* The mutant of _exists: 304 counts as well.
ExistsStatusOk_NotModified(status) == status \in {200, 304}

\* _exists: `(await fetch(...)).status === 200`
ExistsStatusOk(status) == status = 200

\* The mutant of all: one of the two is enough.
All_Either(a, b) == a \/ b

\* all: `(await Promise.all(promises)).every(x => x)` for the two promises
\* exists() hands it.
All(a, b) == a /\ b

BoolText(b) == IF b THEN "true" ELSE "false"

\* resource.exists() is called.  fetch.js's URL-defined classes return true
\* at once; every other class runs Dataset.exists or Narrative.exists, whose
\* first step requests "main" or "md" with HEAD.
ExistsCall ==
  /\ exPc = "idle"
  /\ \E r \in ExistsReceivers :
       /\ exOn' = r
       /\ IF ExistsAssumed(r.cls)
            THEN /\ exPc' = "done"
                 /\ exLog' = <<>>
                 /\ exUrl' = <<>>
                 /\ exResult' = "true"
            ELSE LET type == IF IsDatasetClass(r.cls) THEN "main" ELSE "md"
                 IN  /\ exPc' = "main"
                     /\ exLog' = <<Request(type, "HEAD")>>
                     /\ \E branch \in BranchValues(r.source) :
                          exUrl' = <<Url(r, type, "HEAD", branch)>>
                     /\ exResult' = "pending"
  /\ UNCHANGED <<exFailed, ctorVars, visVars, resolveVars, sourceVars>>

\* subresource.url(method) is called on a Subresource of a Resource, with or
\* without the argument, and returns.
CallUrl ==
  /\ exPc = "idle"
  /\ \E r \in ExistsReceivers, method \in MethodInputs :
       \E type \in ValidTypes(SubresourceClassOf(r.cls)),
          branch \in BranchValues(r.source) :
         /\ exOn' = r
         /\ exUrl' = <<Url(r, type, method, branch)>>
  /\ exPc' = "url"
  /\ UNCHANGED <<exLog, exResult, exFailed, ctorVars, visVars, resolveVars, sourceVars>>

\* A HEAD is answered, and exists() runs on from its await.
NetworkAnswer ==
  \E type \in InFlight, status \in Statuses :
    LET log == Append(exLog, Answer(type, status)) IN
    CASE exPc = "main" /\ ExistsStatusOk(status) ->
           /\ exLog' = log
           /\ exPc' = "done"
           /\ exResult' = "true"
           /\ UNCHANGED <<exOn, exUrl, exFailed, ctorVars, visVars, resolveVars, sourceVars>>
      [] exPc = "main" /\ ~ExistsStatusOk(status) /\ IsNarrativeClass(exOn.cls) ->
           /\ exLog' = log
           /\ exPc' = "done"
           /\ exResult' = "false"
           /\ UNCHANGED <<exOn, exUrl, exFailed, ctorVars, visVars, resolveVars, sourceVars>>
      [] exPc = "main" /\ ~ExistsStatusOk(status) /\ IsDatasetClass(exOn.cls) ->
           \* all(_exists("meta"), _exists("tree")): both are requested
           \* before either is answered
           /\ exLog' = log \o <<Request("meta", "HEAD"), Request("tree", "HEAD")>>
           /\ exUrl' = exUrl \o << Url(exOn, "meta", "HEAD", exUrl[1].branch),
                                   Url(exOn, "tree", "HEAD", exUrl[1].branch) >>
           /\ exPc' = "fallback"
           /\ UNCHANGED <<exResult, exOn, exFailed, ctorVars, visVars, resolveVars, sourceVars>>
      [] exPc = "fallback" /\ InFlight # {type} ->
           \* Promise.all waits for the other promise
           /\ exLog' = log
           /\ UNCHANGED <<exPc, exResult, exOn, exUrl, exFailed, ctorVars, visVars, resolveVars, sourceVars>>
      [] exPc = "fallback" /\ InFlight = {type} ->
           /\ exLog' = log
           /\ exPc' = "done"
           /\ exResult' = BoolText(All(ExistsStatusOk(StatusIn(log, "meta")),
                                       ExistsStatusOk(StatusIn(log, "tree"))))
           /\ UNCHANGED <<exOn, exUrl, exFailed, ctorVars, visVars, resolveVars, sourceVars>>
      [] exPc = "done" ->
           \* the answer to a request whose exists() has already rejected
           /\ exLog' = log
           /\ UNCHANGED <<exPc, exResult, exOn, exUrl, exFailed, ctorVars, visVars, resolveVars, sourceVars>>

\* The mutant of a failing HEAD: the failure is swallowed and exists()
\* answers false.
NetworkReject_AnswersFalse ==
  \E type \in InFlight :
    /\ exLog' = Append(exLog, Reject(type))
    /\ IF exPc \in {"main", "fallback"}
         THEN exPc' = "done" /\ exResult' = "false"
         ELSE UNCHANGED <<exPc, exResult>>
    /\ UNCHANGED <<exOn, exUrl, exFailed, ctorVars, visVars, resolveVars, sourceVars>>

\* A HEAD fails: the awaited fetch (or Promise.all) rejects and so does
\* exists(); a request still in flight stays in flight.
NetworkReject ==
  \E type \in InFlight :
    /\ exLog' = Append(exLog, Reject(type))
    /\ IF exPc \in {"main", "fallback"}
         THEN exPc' = "done" /\ exResult' = "rejected"
         ELSE UNCHANGED <<exPc, exResult>>
    /\ UNCHANGED <<exOn, exUrl, exFailed, ctorVars, visVars, resolveVars, sourceVars>>

\* The caller has the outcome; the next exists() starts from nothing.
ExistsReturn ==
  /\ exPc \in {"done", "url"}
  /\ exOn' = NoResource
  /\ exPc' = "idle"
  /\ exLog' = <<>>
  /\ exResult' = "pending"
  /\ exUrl' = <<>>
  /\ exFailed' = (exFailed \/ exResult = "rejected")
  /\ UNCHANGED <<ctorVars, visVars, resolveVars, sourceVars>>

ExistsNext ==
  \/ ExistsCall
  \/ CallUrl
  \/ NetworkAnswer
  \/ NetworkReject
  \/ ExistsReturn

SpecExists == Init /\ [][ExistsNext]_vars

(* ------------------------------------------------------------------ *)
(* The readers of global.availableDatasets                             *)
(* ------------------------------------------------------------------ *)

\* A request resolves Datasets, one resolve() at a time.
CacheResolve ==
  /\ inst = NoSourceInstance
  /\ exPc = "idle"
  /\ ResolveNext

\* The paths the cache lists for a source name.
KnownPaths(cache, name) ==
  IF name \in DOMAIN cache.known
    THEN cache.known[name]
    ELSE {}

\* A request asks whether a Dataset the cache lists for the core source
\* exists, or for the URL of one of its Subresources.
CacheExists ==
  /\ inst = NoSourceInstance
  /\ rsPc = "idle"
  /\ ExistsNext
  /\ \/ exOn' = NoResource
     \/ /\ exOn'.source.cls = "CoreSource"
        /\ exOn'.cls = "Dataset"
        /\ Join(exOn'.pathParts, "/") \in KnownPaths(availableDatasets, "core")

\* A request constructs the core or the staging source ...
CacheNewSource ==
  /\ rsPc = "idle"
  /\ exPc = "idle"
  /\ NewSource
  /\ IsCoreSourceClass(inst'.cls)

\* ... and lists its datasets or asks for second trees.
CacheAvailableDatasets ==
  /\ IsCoreSourceClass(inst.cls)
  /\ CallAvailableDatasets

CacheNext ==
  \/ CacheResolve
  \/ CacheExists
  \/ CacheNewSource
  \/ CacheAvailableDatasets
  \/ CallSecondTreeOptions

SpecCache == InitResolve /\ [][CacheNext]_vars

(* ------------------------------------------------------------------ *)
(* Properties of construction (checked under Spec)                     *)
(* ------------------------------------------------------------------ *)
ConstructOps == {"new", "dataset", "narrative"}
SubresourceOps == {"new Subresource", "subresource"}

\* C1: a construction whose baseParts come out empty throws
\* NoResourcePathError and leaves no object, so every Resource a request holds
\* has non-empty baseParts; a Dataset or Narrative of any class other than the
\* community ones is never constructed from an empty pathParts.
C1_EmptyBasePartsFails ==
  /\ resource # NoResource =>
       BaseParts(resource.cls, resource.source, resource.pathParts) # <<>>
  /\ (call.op \in ConstructOps /\ BaseParts(call.cls, call.source, call.pathParts) = <<>>)
       => (thrown = "NoResourcePathError" /\ resource = NoResource)
  /\ (call.op \in ConstructOps /\ call.pathParts = <<>>
        /\ call.cls \notin {"CommunityDataset", "CommunityNarrative"})
       => (thrown = "NoResourcePathError" /\ resource = NoResource)

\* C1 witness: core.dataset([]) has thrown NoResourcePathError.
C1_Witness ==
  /\ call.op = "dataset"
  /\ call.source.cls = "CoreSource"
  /\ call.pathParts = <<>>
  /\ thrown = "NoResourcePathError"
  /\ resource = NoResource

\* C2: a CommunityDataset and a CommunityNarrative construct for every
\* pathParts, their baseParts starting with directory plus repository name;
\* isRequestValidWithoutDataset is true exactly on a CommunityDataset with
\* empty pathParts.
C2_CommunityAlwaysConstructs ==
  /\ (call.op \in ConstructOps /\ call.cls \in {"CommunityDataset", "CommunityNarrative"})
       => /\ thrown = "none"
          /\ resource = ResourceObject(call.cls, call.source, call.pathParts)
          /\ Head(BaseParts(resource.cls, resource.source, resource.pathParts))
               = (IF call.cls = "CommunityDataset" THEN "auspice/" ELSE "narratives/")
                   \o RepoNameText(call.source)
  /\ call.op = "isRequestValidWithoutDataset"
       => (validWithout <=> (resource.cls = "CommunityDataset" /\ resource.pathParts = <<>>))

\* C2 witness: community.dataset([]) was constructed and reports that the
\* request is valid without a dataset.
C2_Witness ==
  /\ call.op = "isRequestValidWithoutDataset"
  /\ resource.cls = "CommunityDataset"
  /\ resource.source.cls = "CommunitySource"
  /\ resource.pathParts = <<>>
  /\ validWithout

\* The enumerated types of each Subresource family, as the claim lists them.
C3_TypesOf(subCls) ==
  IF subCls \in {"DatasetSubresource", "UrlDefinedDatasetSubresource",
                 "fetch.js:UrlDefinedDatasetSubresource"}
    THEN {"main", "root-sequence", "tip-frequencies", "meta", "tree"}
    ELSE {"md"}

\* C3: constructing a Subresource, directly or through
\* resource.subresource(type), throws unless the type is one of the kind's
\* enumerated types; on a Resource, a Dataset (URL-defined or not) accepts
\* exactly the five dataset types and a Narrative exactly "md".
C3_SubresourceTypeChecked ==
  call.op \in SubresourceOps =>
    /\ call.type \notin C3_TypesOf(call.subCls)
         => (thrown = "Error" /\ subresource = NoSubresource)
    /\ (call.type \in C3_TypesOf(call.subCls) /\ call.subCls # "Subresource"
          /\ resource # NoResource)
         => (thrown = "none"
             /\ subresource = [cls |-> call.subCls, resource |-> resource,
                               type |-> call.type])
    /\ (call.op = "subresource" /\ IsDatasetClass(resource.cls))
         => (thrown = "none" <=>
               call.type \in {"main", "root-sequence", "tip-frequencies", "meta", "tree"})
    /\ (call.op = "subresource" /\ IsNarrativeClass(resource.cls))
         => (thrown = "none" <=> call.type = "md")

\* C3 witness: subresource("main") on a URL-defined Narrative has thrown.
C3_Witness ==
  /\ call.op = "subresource"
  /\ resource.cls = "UrlDefinedNarrative"
  /\ call.type = "main"
  /\ thrown = "Error"
  /\ subresource = NoSubresource

(* ------------------------------------------------------------------ *)
(* Properties of visibleToUser (checked under SpecVisible)             *)
(* ------------------------------------------------------------------ *)

\* C4: on every registered private group source, visibleToUser(p) is true iff
\* p is present, has a groups list, and the list holds the source's own name.
C4_PrivateGroupVisibility ==
  (visCall.kind # "none" /\ visCall.cls \in PrivateGroupClasses) =>
    /\ visible.thrown = "none"
    /\ visible.value <=>
         /\ visCall.user.present
         /\ visCall.user.hasGroups
         /\ PrivateGroupNames[visCall.cls] \in visCall.user.groups

\* C4 witness: a member of another private group was denied by inrb-drc.
C4_Witness ==
  /\ visCall.kind = "instance"
  /\ visCall.cls = "InrbDrcSource"
  /\ visCall.user = Principal(TRUE, TRUE, {"blab-private"})
  /\ visible = Returns(FALSE)

\* C5: visibleToUser is pure: the instance-level check and the class's static
\* rule, asked one after the other about the same principal, agree (and so do
\* repeated calls), and every registered source that is not a private group
\* answers true to every principal, an absent one included.
C5_VisibleToUserPure ==
  /\ []((visCall.kind # "none"
            /\ visCall.cls \in ((sources \cup FetchJsSourceClasses) \ PrivateGroupClasses))
          => visible = Returns(TRUE))
  /\ [][(visCall # NoVisCall /\ visCall' # NoVisCall) => visible' = visible]_vars

\* C5 witness: the instance-level check of the core source answered true to an
\* absent principal.
C5_Witness ==
  /\ visCall.kind = "instance"
  /\ visCall.cls = "CoreSource"
  /\ ~visCall.user.present
  /\ visible = Returns(TRUE)


(* ------------------------------------------------------------------ *)
(* Properties of exists() (checked under SpecExists)                   *)
(* ------------------------------------------------------------------ *)
C6_NoReject == \A i \in DOMAIN exLog : exLog[i].kind # "reject"

\* C6: when every HEAD is answered, exists() of a Dataset that is not
\* URL-defined is true iff "main" answered 200 or both "meta" and "tree"
\* answered 200; exists() of such a Narrative is true iff "md" answered 200.
C6_ExistsRule ==
  (exPc = "done" /\ C6_NoReject /\ ~IsUrlDefinedClass(exOn.cls)) =>
    /\ exResult \in {"true", "false"}
    /\ IsDatasetClass(exOn.cls) =>
         (exResult = "true" <=>
            \/ StatusIn(exLog, "main") = 200
            \/ (StatusIn(exLog, "meta") = 200 /\ StatusIn(exLog, "tree") = 200))
    /\ IsNarrativeClass(exOn.cls) =>
         (exResult = "true" <=> StatusIn(exLog, "md") = 200)

\* C6 witness: main 404, meta 200, tree 200 gave true on a core Dataset.
C6_Witness ==
  /\ exPc = "done"
  /\ exOn.cls = "Dataset"
  /\ exOn.source.cls = "CoreSource"
  /\ StatusIn(exLog, "main") = 404
  /\ StatusIn(exLog, "meta") = 200
  /\ StatusIn(exLog, "tree") = 200
  /\ exResult = "true"

\* C7 (as claimed): exists() of every URL-defined Dataset and Narrative is
\* true and no request is ever issued for it.
C7_UrlDefinedAssumed ==
  (exPc # "idle" /\ IsUrlDefinedClass(exOn.cls)) =>
    (exResult = "true" /\ exLog = <<>>)


(* ------------------------------------------------------------------ *)
(* Properties of Dataset.resolve() (checked under SpecResolve)         *)
(* ------------------------------------------------------------------ *)
RsName == SourceName(rsReceiver.source.cls)
RsPath == Join(rsReceiver.pathParts, "/")
RsSettled == rsPc \in {"returned", "thrown"}
RsKnown == RsName \in DOMAIN availableDatasets.known
RsIsKnownPath == RsKnown /\ RsPath \in availableDatasets.known[RsName]
RsHasDefault ==
  /\ RsName \in DOMAIN availableDatasets.defaults
  /\ RsPath \in DOMAIN availableDatasets.defaults[RsName]
RsReturnedReceiver == rsPc = "returned" /\ rsResult = rsReceiver /\ rsNew = 0

\* C8: resolve() returns the receiver itself when the cache has no
\* known-paths entry for the receiver's source, and when the receiver's path
\* is a known path of its source, whether or not a default exists for it.
C8_KnownOrUnverifiable ==
  (RsSettled /\ (~RsKnown \/ RsIsKnownPath)) => RsReturnedReceiver

\* C8 witness: the receiver's path is known and has a default, and resolve()
\* has returned the receiver.
C8_Witness ==
  /\ RsSettled
  /\ RsIsKnownPath
  /\ RsHasDefault
  /\ RsReturnedReceiver

\* The first path of the chain parts, parts/d1, parts/d1/d2, ... that is a
\* known path of the source or has no default.
RECURSIVE C9_ChainEnd(_, _)
C9_ChainEnd(name, parts) ==
  LET path == Join(parts, "/")
      dflt == availableDatasets.defaults[name]
  IN  IF path \in availableDatasets.known[name] \/ path \notin DOMAIN dflt
        THEN parts
        ELSE C9_ChainEnd(name, parts \o <<dflt[path]>>)

\* C9: when the receiver's path is not known and has a default, resolve()
\* returns a Dataset of the same class and source whose pathParts are the
\* first path of the receiver's chain of defaults that is a known path or has
\* no default; that Dataset was constructed, one per default applied.
C9_DefaultsChain ==
  (RsSettled /\ RsKnown /\ ~RsIsKnownPath /\ RsHasDefault) =>
    /\ rsPc = "returned"
    /\ rsResult = ResourceObject(rsReceiver.cls, rsReceiver.source,
                                 C9_ChainEnd(RsName, rsReceiver.pathParts))
    /\ rsNew = Len(rsResult.pathParts) - Len(rsReceiver.pathParts)
    /\ rsNew >= 1
    /\ SubSeq(rsResult.pathParts, 1, Len(rsReceiver.pathParts) + 1)
         = rsReceiver.pathParts \o <<availableDatasets.defaults[RsName][RsPath]>>

\* C9 witness: /flu was served as /flu/seasonal/h3n2, two defaults applied one
\* after the other.
C9_Witness ==
  /\ rsPc = "returned"
  /\ rsReceiver.pathParts = <<"flu">>
  /\ rsResult.pathParts = <<"flu", "seasonal", "h3n2">>
  /\ rsNew = 2

\* C10 (as claimed): when the receiver's path is not a known path of its
\* source and has no default, the defaults map having no entry for the source
\* included, resolve() returns the receiver and does not fail.
C10_NoDefaultReturnsSelf ==
  (RsSettled /\ RsKnown /\ ~RsIsKnownPath /\ ~RsHasDefault) => RsReturnedReceiver

\* C11: resolve() is idempotent: called on the Dataset a resolve() returned,
\* with the cache unchanged, it returns that same Dataset (no Dataset is
\* constructed, the pathParts are the same) and does not throw.
C11_ResolveIdempotent ==
  (RsSettled /\ rsFirst # NoResource) =>
    /\ rsPc = "returned"
    /\ rsResult = rsFirst
    /\ rsNew = 0

\* C11 witness: the result of resolving an alias, /flu/seasonal/h3n2, was
\* resolved again and came back.
C11_Witness ==
  /\ rsPc = "returned"
  /\ rsFirst # NoResource
  /\ rsFirst.pathParts = <<"flu", "seasonal", "h3n2">>
  /\ rsResult = rsFirst

\* The number of defaults the cache holds for the receiver's source.
C12_DefaultsCount ==
  IF RsName \in DOMAIN availableDatasets.defaults
    THEN Cardinality(DOMAIN availableDatasets.defaults[RsName])
    ELSE 0

\* C12: resolve() terminates for every content of the cache: a call that is
\* running settles (returns or throws), after constructing at most one Dataset
\* per defaults entry of the source; defaults that lead back to an earlier
\* segment or to themselves, and chains that never reach a known path, are
\* among the caches.
C12_ResolveTerminates ==
  /\ [](rsNew <= C12_DefaultsCount)
  /\ (rsPc = "running") ~> RsSettled

\* C12 witness: with seasonal -> seasonal and seasonal/seasonal -> seasonal as
\* defaults and no known path at all, resolve() of /seasonal has returned.
C12_Witness ==
  /\ rsPc = "returned"
  /\ RsKnown
  /\ availableDatasets.known[RsName] = {}
  /\ rsReceiver.pathParts = <<"seasonal">>
  /\ rsResult.pathParts = <<"seasonal", "seasonal", "seasonal">>

\* The receiver is an alias: resolve() applies a default to it.
C13_IsAlias == RsKnown /\ ~RsIsKnownPath /\ RsHasDefault

\* C13: resolve() returns the receiver itself exactly when the receiver is not
\* an alias; for an alias it returns a newly constructed Dataset of the same
\* class and source whose pathParts have the receiver's as a strict prefix.
C13_SelfIffNotAlias ==
  rsPc = "returned" =>
    /\ (rsResult = rsReceiver /\ rsNew = 0) <=> ~C13_IsAlias
    /\ C13_IsAlias =>
         /\ rsNew >= 1
         /\ rsResult.cls = rsReceiver.cls
         /\ rsResult.source = rsReceiver.source
         /\ Len(rsResult.pathParts) > Len(rsReceiver.pathParts)
         /\ SubSeq(rsResult.pathParts, 1, Len(rsReceiver.pathParts)) = rsReceiver.pathParts

\* C13 witness: a staging alias was resolved to a Dataset one segment longer.
C13_Witness ==
  /\ rsPc = "returned"
  /\ C13_IsAlias
  /\ rsReceiver.source.cls = "CoreStagingSource"
  /\ rsResult # rsReceiver
  /\ Len(rsResult.pathParts) = Len(rsReceiver.pathParts) + 1

(* ------------------------------------------------------------------ *)
(* Properties of baseName (checked under Spec)                         *)
(* ------------------------------------------------------------------ *)

\* The Subresource is of the class its Resource's subresource() constructs.
C14_OwnSubresource == subresource.cls = SubresourceClassOf(resource.cls)

\* A file name without its ".json".
C14_FileStem(file) == CASE file = "zika.json" -> "zika"

\* C14: the naming table of baseName.  For a Resource that is not URL-defined
\* the stem is its baseParts joined with "_", and the name is stem.json for
\* "main", stem_{type}.json for every other dataset type and stem.md for a
\* narrative.  For a URL-defined Resource the stem is its path joined with
\* "/"; "main" and "md" give the stem unchanged; another type gives the stem
\* with a trailing ".json" replaced by _{type}.json, or with _{type} appended
\* when the stem does not end in ".json".
C14_BaseNameTable ==
  (call.op = "baseName" /\ C14_OwnSubresource) =>
    LET type == subresource.type
        parts == BaseParts(resource.cls, resource.source, resource.pathParts)
    IN  IF ~IsUrlDefinedClass(resource.cls)
          THEN LET stem == Join(parts, "_")
               IN  /\ type = "main" => baseName = stem \o ".json"
                   /\ (IsDatasetClass(resource.cls) /\ type # "main")
                        => baseName = stem \o "_" \o type \o ".json"
                   /\ IsNarrativeClass(resource.cls) => baseName = stem \o ".md"
          ELSE LET stem == Join(parts, "/")
                   lastPart == parts[Len(parts)]
               IN  /\ type \in {"main", "md"} => baseName = stem
                   /\ (type \notin {"main", "md"} /\ lastPart \in FileSegments)
                        => baseName = Join(SubSeq(parts, 1, Len(parts) - 1)
                                             \o <<C14_FileStem(lastPart)>>, "/")
                                        \o "_" \o type \o ".json"
                   /\ (type \notin {"main", "md"} /\ lastPart \notin FileSegments)
                        => baseName = stem \o "_" \o type

\* C14 witness: the "meta" sidecar of the URL-defined dataset flu/zika.json
\* is named flu/zika_meta.json.
C14_Witness ==
  /\ call.op = "baseName"
  /\ resource.cls = "UrlDefinedDataset"
  /\ resource.pathParts = <<"flu", "zika.json">>
  /\ subresource.cls = "UrlDefinedDatasetSubresource"
  /\ subresource.type = "meta"
  /\ baseName = "flu/zika_meta.json"

(* ------------------------------------------------------------------ *)
(* Properties of the Source methods (checked under SpecSource)         *)
(* ------------------------------------------------------------------ *)
ListingOps == {"availableDatasets", "availableNarratives"}

\* The call that has settled returned the empty list.
ReturnedEmpty == last.result.thrown = "none" /\ last.result.value = <<>>

\* The call that has settled failed with the error named.
Failed(error) == last.result.thrown = error

\* Something failed inside the getInfo() that has settled: the listing of
\* the bucket, the download of the overview, its decompression, or the
\* parsing of its front matter.
C15_InfoFailed ==
  \/ last.listing.state = "rejected"
  \/ /\ last.object.kind # "none"
     /\ \/ GetAndDecompressObject(last.object).thrown # "none"
        \/ ParseOverviewMarkdown(GetAndDecompressObject(last.object).value).thrown # "none"

\* C15: getInfo() never throws and never rejects, on every source and
\* whatever the backend does; on an S3Source whose listing, overview download,
\* decompression or front-matter parsing failed it gives the fallback record:
\* title "<name>" Nextstrain group, showDatasets and showNarratives true, and
\* an error.
C15_GetInfoNeverRaises ==
  last.op = "getInfo" =>
    /\ last.result.thrown = "none"
    /\ (IsS3SourceClass(inst.cls) /\ C15_InfoFailed) =>
         /\ last.result.value.title = "\"" \o SourceName(inst.cls) \o "\" Nextstrain group"
         /\ last.result.value.showDatasets = "true"
         /\ last.result.value.showNarratives = "true"
         /\ last.result.value.error # JsUndefined

\* C15 witness: getInfo() of the private group blab-private gave the fallback
\* record after the listing of its bucket had failed.
C15_Witness ==
  /\ last.op = "getInfo"
  /\ inst.cls = "BlabPrivateSource"
  /\ last.listing.state = "rejected"
  /\ last.result.thrown = "none"
  /\ last.result.value.title = "\"blab-private\" Nextstrain group"
  /\ last.result.value.error = "Error in custom group info: S3Error"

\* The listing behind the call that has settled failed, and not by a 404 of
\* GitHub: an error on a page of the bucket listing, a failed request, or a
\* status that is neither a success nor 404.
C16_ListingFailed ==
  \/ last.listing.state = "rejected"
  \/ last.response.kind = "failed"
  \/ (last.response.kind = "response" /\ last.response.status \notin {200, 304, 404})

\* C16 (as claimed): on every source, availableDatasets() and
\* availableNarratives() whose listing failed for another reason than a 404
\* of GitHub return the empty list; they neither throw nor reject.
C16_ListingRecovers ==
  (last.op \in ListingOps /\ C16_ListingFailed) => ReturnedEmpty

\* C17 (as claimed): whenever the contents API answers 404, the listing
\* method, whichever of the three it is, fails with NotFound; whenever it
\* answers another status that is not a success the method returns [].
C17_NotFoundAlike ==
  (last.op \in ListingOps /\ last.response.kind = "response") =>
    /\ last.response.status = 404 => Failed("NotFound")
    /\ last.response.status \notin {200, 304, 404} => ReturnedEmpty

\* C17 (amended): when the contents API answers 404, CoreSource's
\* availableNarratives() and CommunitySource's availableDatasets() fail with
\* NotFound, while CommunitySource's availableNarratives() returns []; when
\* it answers another status that is not a success, each of them returns [].
C17_NotFoundButCommunityNarratives ==
  (last.op \in ListingOps /\ last.response.kind = "response") =>
    /\ last.response.status = 404 =>
         IF inst.cls = "CommunitySource" /\ last.op = "availableNarratives"
           THEN ReturnedEmpty
           ELSE Failed("NotFound")
    /\ last.response.status \notin {200, 304, 404} => ReturnedEmpty

\* C17 witness: availableNarratives() of a CommunitySource returned [] on a
\* 404.
C17_Witness ==
  /\ inst.cls = "CommunitySource"
  /\ last.op = "availableNarratives"
  /\ last.response.kind = "response"
  /\ last.response.status = 404
  /\ ReturnedEmpty

\* The objects of the pages among page events, in the order of the pages.
RECURSIVE C18_ObjectsOf(_)
C18_ObjectsOf(pages) ==
  IF pages = <<>> THEN <<>>
  ELSE (IF Head(pages).kind = "data" THEN Head(pages).Contents ELSE <<>>)
         \o C18_ObjectsOf(Tail(pages))

\* What C18 says of one call that lists a bucket.
C18_Holds(c) ==
  LET n == Len(c.pages)
      before == SubSeq(c.pages, 1, n - 1)
  IN  /\ c.listing.state = "pending" =>
           \A k \in 1..n : c.pages[k].kind = "data"
      /\ c.listing.state \in {"fulfilled", "rejected"} =>
           /\ n >= 1
           /\ \A k \in 1..(n - 1) : c.pages[k].kind = "data"
      /\ c.listing.state = "fulfilled" =>
           /\ c.pages[n].kind = "end"
           /\ c.listing.value = C18_ObjectsOf(c.pages)
      /\ c.listing.state = "rejected" <=> (n >= 1 /\ c.pages[n].kind = "error")
      /\ (c.listing.state = "rejected" /\ c.pc = "done" /\ c.op \in ListingOps) =>
           c.result.thrown # "none"

\* C18: _listObjects() settles only on the end of the listing or on an error;
\* it resolves with the objects of all pages in the order of the pages; on an
\* error on any page it rejects, and the objects of the earlier pages are not
\* what a listing gives.
C18_ListObjectsAllOrNothing ==
  \A c \in InProgress \cup {last} : c.listing # NoPromise => C18_Holds(c)

\* C18 witness: a listing of two pages resolved with the objects of both, in
\* the order of the pages.
C18_Witness ==
  /\ last.op = "availableNarratives"
  /\ last.pages = << PageEvent("data", <<[Key |-> "flu_seasonal.md"]>>),
                     PageEvent("data", <<[Key |-> "flu_seasonal.json"]>>),
                     PageEvent("end", <<>>) >>
  /\ last.listing = Fulfilled(<<[Key |-> "flu_seasonal.md"], [Key |-> "flu_seasonal.json"]>>)
  /\ last.result = Returns(<<"flu/seasonal">>)

\* C19: on one CommunitySource, however its calls of baseUrl(),
\* availableDatasets(), availableNarratives(), getInfo() and
\* repoNameWithBranch() follow or overlap, at most one default-branch lookup
\* is ever requested, `await this.branch` gives all of them the same value,
\* and the promise of the default branch, once settled, never changes.
C19_SingleLookup ==
  /\ [](lookups <= 1)
  /\ [](Cardinality(observed) <= 1)
  /\ [](inst.cls = "CommunitySource" =>
          \A c \in InProgress : c.pc # "awaitBranch" => c.branch \in observed)
  /\ [][defaultBranch.state = "fulfilled" => defaultBranch' = defaultBranch]_vars

\* C19 witness: two listing calls in progress at once on a CommunitySource
\* without a pinned branch have both been given "main", after one lookup.
C19_Witness ==
  /\ inst.cls = "CommunitySource"
  /\ ~BranchExplicitlyDefined(inst)
  /\ lookups = 1
  /\ observed = {"main"}
  /\ BagCardinality(calls) = 2
  /\ \A c \in InProgress : c.pc = "awaitListing" /\ c.branch = "main"

\* C20 (as claimed): a CommunitySource looks its default branch up only when
\* no branch is pinned, and not before a call needs the branch: after the
\* construction alone no lookup has been requested, and on a source with a
\* pinned branch none ever is.
C20_LazyLookup ==
  inst.cls = "CommunitySource" =>
    /\ BranchExplicitlyDefined(inst) => lookups = 0
    /\ (calls = EmptyBag /\ observed = {}) => lookups = 0

\* C21 (as claimed): when the default-branch lookup of a CommunitySource
\* without a pinned branch fails (the request is rejected, the body is not
\* JSON, or the answer carries no default branch), the branch settles to
\* "master" and the calls go on with it: the promise of the default branch is
\* never rejected, never settles to undefined, and no call is given undefined
\* as its branch.
C21_FallbackMaster ==
  (inst.cls = "CommunitySource" /\ ~BranchExplicitlyDefined(inst)) =>
    /\ defaultBranch.state # "rejected"
    /\ defaultBranch.state = "fulfilled" => defaultBranch.value \in {"main", "master"}
    /\ "" \notin observed

(* ------------------------------------------------------------------ *)
(* Properties of exists() and url() (checked under SpecExists)         *)
(* ------------------------------------------------------------------ *)

\* exists() of Dataset is running, or has settled, on exOn.
DatasetExistsOn ==
  /\ exPc \in {"main", "fallback", "done"}
  /\ IsDatasetClass(exOn.cls)
  /\ ~ExistsAssumed(exOn.cls)

\* A request of the call on exOn has failed.
SomeReject == \E i \in DOMAIN exLog : exLog[i].kind = "reject"

\* The requests of the call on exOn, in the order they were issued.
RequestsIssued == SelectSeq(exLog, LAMBDA e : e.kind = "request")

\* C22 (as claimed): in the fallback of Dataset.exists() the requests of
\* "meta" and "tree" are in flight at the same time, and as soon as one of
\* them is answered with another status than 200, exists() has returned false,
\* the other one answered or not.
C22_FallbackShortCircuits ==
  (DatasetExistsOn /\ ~SomeReject) =>
    /\ "meta" \in Requested <=> "tree" \in Requested
    /\ (StatusIn(exLog, "meta") \notin {0, 200} \/ StatusIn(exLog, "tree") \notin {0, 200}) =>
         (exPc = "done" /\ exResult = "false")

\* What exists() answers from the answers in log, by the class of its
\* receiver.
C23_Answer(cls, log) ==
  IF ExistsAssumed(cls) THEN "true"
  ELSE IF IsNarrativeClass(cls) THEN BoolText(StatusIn(log, "md") = 200)
  ELSE BoolText(\/ StatusIn(log, "main") = 200
                \/ (StatusIn(log, "meta") = 200 /\ StatusIn(log, "tree") = 200))

\* C23: an exists() one of whose HEAD requests fails rejects, and does not
\* answer false; the failure stays with that call: an exists() called after
\* one that rejected starts with a request of its own, and what it answers
\* follows from the answers to its own requests alone.
C23_FailureNotCached ==
  /\ exPc = "done" => (exResult = "rejected" <=> SomeReject)
  /\ exPc \in {"main", "fallback"} => (exResult = "pending" /\ ~SomeReject)
  /\ (exFailed /\ exPc \in {"main", "fallback", "done"}) =>
       /\ ~ExistsAssumed(exOn.cls) =>
            (Len(exLog) >= 1 /\ exLog[1].kind = "request")
       /\ (exPc = "done" /\ ~SomeReject) => exResult = C23_Answer(exOn.cls, exLog)

\* C23 witness: after an exists() that rejected, an exists() has answered
\* true on a 200 to its own request of "main".
C23_Witness ==
  /\ exFailed
  /\ exPc = "done"
  /\ exLog = <<Request("main", "HEAD"), Answer("main", 200)>>
  /\ exResult = "true"

\* C24: url(method) gives what source.urlFor(baseName, method) gives, with
\* GET for a method left out; on a private group source the URL is signed for
\* the source's bucket and the key baseName, with headObject for HEAD and
\* getObject for every other method; and exists() asks for each of its URLs
\* with HEAD and requests it with HEAD, so that on a private source every URL
\* it requests is signed with headObject.
C24_SignatureMatchesVerb ==
  \A i \in DOMAIN exUrl :
    LET u == exUrl[i]
        key == SubresourceBaseName(SubresourceOf(exOn, u.type))
        private == exOn.source.cls \in PrivateGroupClasses
    IN  /\ u.url.key = key
        /\ u.method = JsUndefined => u.url = UrlFor(exOn.source, u.branch, key, "GET")
        /\ private =>
             /\ u.url.operation = IF u.method = "HEAD" THEN "headObject" ELSE "getObject"
             /\ u.url.bucket = IF exOn.source.cls = "InrbDrcSource"
                                 THEN "nextstrain-inrb"
                                 ELSE "nextstrain-" \o SourceName(exOn.source.cls)
        /\ ~private => u.url.operation = ""
        /\ exPc # "url" =>
             /\ u.method = "HEAD"
             /\ Len(RequestsIssued) = Len(exUrl)
             /\ RequestsIssued[i] = Request(u.type, "HEAD")
             /\ private => u.url.operation = "headObject"

\* C24 witness: exists() on a Dataset of the private group blab-private is in
\* its fallback, having requested three URLs signed with headObject.
C24_Witness ==
  /\ exPc = "fallback"
  /\ exOn.source.cls = "BlabPrivateSource"
  /\ Len(exUrl) = 3
  /\ \A i \in 1..3 : /\ exUrl[i].url.operation = "headObject"
                      /\ exUrl[i].url.bucket = "nextstrain-blab-private"
  /\ exUrl[3].url.key = "flu_tree.json"

\* C30: Dataset.exists() requests "main" first and nothing else before "main"
\* is answered; it requests "meta" and "tree" only after "main" was answered
\* with another status than 200; so it issues one HEAD when "main" is 200,
\* three when "main" is answered otherwise, and none for root-sequence or
\* tip-frequencies.
C30_MainFirst ==
  DatasetExistsOn =>
    /\ exLog[1] = Request("main", "HEAD")
    /\ \A i \in DOMAIN exLog :
         (i > 1 /\ exLog[i].kind = "request") =>
           /\ exLog[i].type \in {"meta", "tree"}
           /\ exLog[i].method = "HEAD"
           /\ \E j \in 1..(i - 1) :
                exLog[j].kind = "answer" /\ exLog[j].type = "main" /\ exLog[j].status # 200
    /\ StatusIn(exLog, "main") = 200 => Len(RequestsIssued) = 1
    /\ StatusIn(exLog, "main") \notin {0, 200} => Len(RequestsIssued) = 3
    /\ StatusIn(exLog, "main") = 0 => Len(RequestsIssued) = 1

\* C30 witness: an exists() whose "main" was answered 304 has issued three
\* requests and answered false.
C30_Witness ==
  /\ DatasetExistsOn
  /\ exPc = "done"
  /\ StatusIn(exLog, "main") = 304
  /\ Len(RequestsIssued) = 3
  /\ exResult = "false"

\* The sources GitHub hosts the narratives of.
GitHubHosted(source) ==
  IsCoreSourceClass(source.cls) \/ source.cls = "CommunitySource"

\* The root urlFor() resolves a dataset key of source against.
C29_DatasetRoot(source, branch) == UrlFor(source, branch, "flu.json", "GET").root

\* An unsigned URL is the key joined to the root.
C29_Joined(url) ==
  url.text = IF EndsWith(url.root, "/") THEN url.root \o url.key
             ELSE url.root \o "/" \o url.key

\* C29 (as claimed): on core, staging and community, urlFor() resolves a key
\* ending in .md against another root than the one it resolves a dataset key
\* of the same source against; on every other source that does not sign,
\* urlFor() joins the key to baseUrl().
C29_NarrativeRootDiffers ==
  \A i \in DOMAIN exUrl :
    LET u == exUrl[i]
        source == exOn.source
    IN  /\ (GitHubHosted(source) /\ EndsWith(u.url.key, ".md")) =>
             u.url.root # C29_DatasetRoot(source, u.branch)
        /\ (~GitHubHosted(source) /\ source.cls \notin PrivateGroupClasses) =>
             (u.url.root = BaseUrl(source, u.branch) /\ C29_Joined(u.url))

\* C29 (amended): on core and staging, urlFor() resolves a key ending in .md
\* against https://raw.githubusercontent.com/nextstrain/narratives/<branch>/,
\* which is not the root of a dataset key of the same source; on community
\* and on every other source that does not sign, urlFor() joins every key,
\* narrative or dataset, to baseUrl().
C29_CoreNarrativeRootDiffers ==
  \A i \in DOMAIN exUrl :
    LET u == exUrl[i]
        source == exOn.source
    IN  /\ (IsCoreSourceClass(source.cls) /\ EndsWith(u.url.key, ".md")) =>
             /\ u.url.root = "https://raw.githubusercontent.com/nextstrain/narratives/"
                                \o (IF source.cls = "CoreSource" THEN "master" ELSE "staging")
                                \o "/"
             /\ u.url.root # C29_DatasetRoot(source, u.branch)
             /\ C29_Joined(u.url)
        /\ (IsCoreSourceClass(source.cls) /\ ~EndsWith(u.url.key, ".md")) =>
             /\ u.url.root = (IF source.cls = "CoreSource"
                                THEN "http://data.nextstrain.org/"
                                ELSE "http://staging.nextstrain.org/")
             /\ C29_Joined(u.url)
        /\ source.cls = "CommunitySource" =>
             /\ u.url.root = "https://github.com/nextstrain/community-test/raw/"
                                \o TemplateText(u.branch) \o "/"
             /\ u.url.root = C29_DatasetRoot(source, u.branch)
             /\ C29_Joined(u.url)
        /\ (~GitHubHosted(source) /\ source.cls \notin PrivateGroupClasses) =>
             (u.url.root = BaseUrl(source, u.branch) /\ C29_Joined(u.url))

\* C29 witness: url() of the narrative of a CommunitySource pinned to the
\* branch alt gave a URL under the root of its datasets.
C29_Witness ==
  /\ exPc = "url"
  /\ exOn.source.cls = "CommunitySource"
  /\ Len(exUrl) = 1
  /\ exUrl[1].url.text =
       "https://github.com/nextstrain/community-test/raw/alt/narratives/community-test_flu.md"

(* ------------------------------------------------------------------ *)
(* Properties of private sources (checked under SpecVisible)           *)
(* ------------------------------------------------------------------ *)

\* The private object-storage classes that define no visibility rule of their
\* own below PrivateS3Source: their visibleToUser is PrivateS3Source's.
WithoutOwnRule(cls) ==
  /\ cls \in SourceClasses
  /\ VisibleToUserDefiner(cls) = "PrivateS3Source"

\* C25 (as claimed): a private object-storage class that defines no
\* visibility rule of its own fails when it is constructed: `new` throws, so
\* that no instance of it is ever used; and its visibleToUser never returns
\* true.
C25_FailsAtConstruction ==
  /\ WithoutOwnRule(visNew.cls) => visNew.thrown # "none"
  /\ (visCall.kind # "none" /\ WithoutOwnRule(visCall.cls)) => visible.thrown # "none"

(* ------------------------------------------------------------------ *)
(* More properties of the Source methods (checked under SpecSource)    *)
(* ------------------------------------------------------------------ *)

\* The front matter of the overview the getInfo() that has settled parsed.
C26_OverviewGave(field) ==
  IF last.object.kind = "object" THEN last.object.frontMatter[field] ELSE JsUndefined

\* What C26 says of one of the two fields of the record of getInfo().
C26_Holds(field) ==
  LET given == C26_OverviewGave(field)
      value == last.result.value[field]
  IN  /\ value \in {"true", "false"}
      /\ (last.result.value.error = JsUndefined /\ given \in {"true", "false"}) =>
           value = given
      /\ (last.result.value.error = JsUndefined /\ last.object.kind = "object") =>
           given \in {JsUndefined, "true", "false"}
      /\ last.result.value.error # JsUndefined => value = "true"

\* C26 (as claimed): in every record getInfo() of an S3Source returns,
\* showDatasets and showNarratives are booleans: true without an overview or
\* when the overview leaves the field out, the overview's boolean when it
\* gives one; an overview that gives anything else is rejected and the
\* fallback record, with error and both fields true, is returned.
C26_ShowFieldsBoolean ==
  (last.op = "getInfo" /\ IsS3SourceClass(inst.cls) /\ last.result.thrown = "none") =>
    (C26_Holds("showDatasets") /\ C26_Holds("showNarratives"))

(* ------------------------------------------------------------------ *)
(* Properties of the availability cache (checked under SpecCache)      *)
(* ------------------------------------------------------------------ *)

\* C27: resolve(), availableDatasets() and secondTreeOptions() of the core
\* sources and exists() only read global.availableDatasets: no step of any of
\* them changes its known paths, its defaults or its second-tree options; and
\* no step of a resolve() changes the source or the pathParts of the Dataset
\* it was called on.
C27_CacheReadOnly ==
  /\ [][/\ availableDatasets'.known = availableDatasets.known
         /\ availableDatasets'.defaults = availableDatasets.defaults
         /\ availableDatasets'.secondTreeOptions = availableDatasets.secondTreeOptions]_vars
  /\ [][(rsPc = "running" /\ rsReceiver # NoResource) =>
          /\ rsReceiver'.source = rsReceiver.source
          /\ rsReceiver'.pathParts = rsReceiver.pathParts]_vars

\* C27 witness: secondTreeOptions() of the core source gave the second trees
\* the cache holds for a path.
C27_Witness ==
  /\ inst.cls = "CoreSource"
  /\ last.op = "secondTreeOptions"
  /\ last.result.thrown = "none"
  /\ last.result.value # <<>>
  /\ "core" \in DOMAIN availableDatasets.secondTreeOptions

(* ------------------------------------------------------------------ *)
(* Properties of the registry (checked under SpecSource)               *)
(* ------------------------------------------------------------------ *)

\* C28: the classes listed in sources have pairwise distinct names, and a
\* lookup of the name of a registered class S in sourceMap returns S itself:
\* no registered class is shadowed by another one of the same name.
C28_NamesUnique ==
  /\ \A S, T \in sources : S # T => SourceName(S) # SourceName(T)
  /\ \A S \in sources :
       (last.op = "sourceMap.get" /\ last.key = SourceName(S)) =>
         (last.result.thrown = "none" /\ last.result.value = S)

\* C28 witness: the lookup of "core", the name of the class CoreStagingSource
\* extends, returned CoreSource.
C28_Witness ==
  /\ last.op = "sourceMap.get"
  /\ last.key = SourceName("CoreSource")
  /\ last.result.thrown = "none"
  /\ last.result.value = "CoreSource"

====
